---- MODULE Spec2Model ----
(***************************************************************************)
(* Model of the provider dispatch and conversation layer of "Better. AI": *)
(* the React client (src/src/App.js), its API helper                       *)
(* (src/src/api/aiServices.js) and the timeout behaviour of the proxy      *)
(* server (src/unnamed/part_000).                                          *)
(*                                                                         *)
(* A JavaScript string is a sequence of atoms; an atom is either a single  *)
(* character or a literal fragment of a template string.  The empty        *)
(* sequence is the empty string, which is falsy like undefined and null,   *)
(* so "absent" and "empty" take the same branch of every `x || y` in the   *)
(* code.  An optional value is a sequence of length at most one.           *)
(*                                                                         *)
(* Display-only state (activePanel, copyStatuses, darkMode) is left out:   *)
(* it can be changed at any time by a click that changes nothing else, so  *)
(* it gates no handler modelled here.                                      *)
(***************************************************************************)
EXTENDS Integers, Sequences, FiniteSets, TLC

(* ------------------------------ bounds --------------------------------- *)
\* Spec: every handler
MaxRounds == 1      \* top-level submissions
MaxReplies == 1     \* follow-up submissions
MaxEdits == 1       \* model-manager operations (toggle, remove, edit, add)
\* DispatchSpec: rounds and model-manager operations, every kind of answer
MaxDispatchRounds == 2
MaxDispatchEdits == 1
\* ConvSpec: submissions and follow-ups on the seeded configurations
MaxConvRounds == 2
MaxConvReplies == 2
\* FairSpec: rounds only
MaxFairRounds == 1
MaxOpenForms == 1   \* reply forms the user keeps open at a time
MaxClock == 1       \* largest value Date.now() returns

MaxEnvLen == 3      \* atoms in an environment variable's value
MaxOverrideLen == 2 \* atoms in a client-supplied apiKey
MaxKeyCalls == 2    \* calls of ensureApiKey in a row
\* ManagerSpec: the model manager on its own
MaxManagerEdits == 2 \* model-manager operations
\* AnthropicSpec: 2xx answers to the Anthropic route
MaxBlocks == 2      \* blocks in the content array of an answer
\* UiSpec: the prompt library and the tabs
MaxLibraryEdits == 2 \* adds and removals of library entries
MaxStored == 2      \* items in the stored prompts array
\* GuardSpec: submissions while configurations are switched off
MaxGuardRounds == 2 \* top-level submissions that launch a round
MaxGuardEdits == 3  \* configurations switched off or on

(* ------------------------------ strings -------------------------------- *)
IsSpace(a) == a \in {" ", "\n"}

RECURSIVE TrimStart(_)
TrimStart(s) ==
  IF s # <<>> /\ IsSpace(Head(s)) THEN TrimStart(Tail(s)) ELSE s

RECURSIVE TrimEnd(_)
TrimEnd(s) ==
  IF s # <<>> /\ IsSpace(s[Len(s)]) THEN TrimEnd(SubSeq(s, 1, Len(s) - 1)) ELSE s

\* String.prototype.trim
Trim(s) == TrimEnd(TrimStart(s))

\* truthiness of a string
Truthy(s) == s # <<>>

\* a || b on strings
OrElse(a, b) == IF Truthy(a) THEN a ELSE b

None == <<>>
Some(v) == <<v>>

EmptyMap == [k \in {} |-> k]
Put(f, k, v) == [x \in (DOMAIN f) \cup {k} |-> IF x = k THEN v ELSE f[x]]
PutOr(f, k, v, default) ==
  IF v = default THEN [x \in (DOMAIN f) \ {k} |-> f[x]] ELSE Put(f, k, v)

(* ------------------------- provider registry --------------------------- *)
KnownProviders == {"anthropic", "openai", "gemini"}

PROVIDER_CONFIG ==
  [p \in KnownProviders |->
     CASE p = "anthropic" -> [id |-> "anthropic", displayName |-> "Anthropic Claude",
                              defaultModel |-> <<"claude-3-haiku-20240307">>]
       [] p = "openai"    -> [id |-> "openai", displayName |-> "OpenAI ChatGPT",
                              defaultModel |-> <<"gpt-4o-mini">>]
       [] p = "gemini"    -> [id |-> "gemini", displayName |-> "Google Gemini",
                              defaultModel |-> <<"gemini-2.5-flash">>]]

\* PROVIDER_CONFIG[providerId]?.defaultModel || ''
DefaultModelOf(providerId) ==
  IF providerId \in DOMAIN PROVIDER_CONFIG THEN PROVIDER_CONFIG[providerId].defaultModel ELSE <<>>

friendlyProviderName(providerId) ==
  CASE providerId = "anthropic" -> "Claude"
    [] providerId = "openai" -> "ChatGPT"
    [] providerId = "gemini" -> "Gemini"
    [] OTHER -> providerId

(* --------------------------- promise states ---------------------------- *)
Pending == [status |-> "pending"]
Fulfilled(v) == [status |-> "fulfilled", value |-> v]
Rejected(msg) == [status |-> "rejected", reason |-> msg]

(* ------------------ what fetch() can deliver to the client ------------- *)
\* net: fetch resolved (FALSE: it rejected with netMessage); parsed: the body
\* is JSON; ok: status is 2xx; data: the fields of the parsed body.
HttpResponse(net, parsed, ok, statusText, content, model, err) ==
  [net |-> net, netMessage |-> <<"Failed to fetch">>, parsed |-> parsed, ok |-> ok,
   statusText |-> statusText,
   data |-> [content |-> content, model |-> model, error |-> err]]

RespSuccess == HttpResponse(TRUE, TRUE, TRUE, <<"OK">>, <<"ans">>, <<"resolved-model">>, <<>>)
RespEmpty == HttpResponse(TRUE, TRUE, TRUE, <<"OK">>, <<>>, <<>>, <<>>)
RespHttpError ==
  HttpResponse(TRUE, TRUE, FALSE, <<"Too Many Requests">>, <<>>, <<>>, <<"upstream error (429)">>)
RespHttpErrorNoBody ==
  HttpResponse(TRUE, TRUE, FALSE, <<"Bad Gateway">>, <<>>, <<>>, <<>>)
RespUnparsable == HttpResponse(TRUE, FALSE, FALSE, <<"Bad Gateway">>, <<>>, <<>>, <<>>)
RespNetworkError == HttpResponse(FALSE, FALSE, FALSE, <<>>, <<>>, <<>>, <<>>)
\* the proxy's answer when postAnthropicJSON rejects on its 25 s timeout
RespAnthropicTimeout ==
  HttpResponse(TRUE, TRUE, FALSE, <<"Internal Server Error">>, <<>>, <<>>,
               <<"Anthropic request timed out">>)

\* the answers the environment may give to an outstanding call
AllResponses ==
  {RespSuccess, RespEmpty, RespHttpError, RespHttpErrorNoBody, RespUnparsable, RespNetworkError}
\* one answer of each kind of outcome: content, no content, fallback
Responses == {RespSuccess, RespEmpty, RespNetworkError}
FailureResponses == {RespHttpError, RespHttpErrorNoBody, RespUnparsable, RespNetworkError,
                     RespAnthropicTimeout}

(* ------------------------- src/api/aiServices.js ----------------------- *)
\* the message of the error thrown inside the try block, None if none is thrown
BackendError(resp) ==
  IF ~resp.net THEN Some(resp.netMessage)
  ELSE IF ~resp.parsed THEN Some(<<"Failed to parse response payload">>)
  ELSE IF ~resp.ok THEN Some(OrElse(resp.data.error, OrElse(resp.statusText, <<"Unknown error">>)))
  ELSE None

MockContent(providerId, prompt, message) ==
  <<friendlyProviderName(providerId), "'s response to: \"">> \o prompt
    \o <<"\"\n\nThis is a mock response from ", friendlyProviderName(providerId),
         ". To use the real API, configure the server-side API key or authenticate the model.",
         "\n\n", "Error: ">>
    \o message

\* performBackendRequest with a catch block that rethrows
performBackendRequestRethrows(providerId, prompt, model, resp) ==
  IF providerId \notin DOMAIN PROVIDER_CONFIG
  THEN Rejected(<<"Unsupported provider: ", providerId>>)
  ELSE LET fallbackModel == OrElse(model, PROVIDER_CONFIG[providerId].defaultModel)
           thrown == BackendError(resp)
       IN IF thrown = None
          THEN Fulfilled([content |-> OrElse(resp.data.content, <<>>),
                          model |-> OrElse(resp.data.model, fallbackModel)])
          ELSE Rejected(thrown[1])

performBackendRequest(providerId, prompt, model, resp) ==
  IF providerId \notin DOMAIN PROVIDER_CONFIG
  THEN Rejected(<<"Unsupported provider: ", providerId>>)
  ELSE LET fallbackModel == OrElse(model, PROVIDER_CONFIG[providerId].defaultModel)
           thrown == BackendError(resp)
       IN IF thrown = None
          THEN Fulfilled([content |-> OrElse(resp.data.content, <<>>),
                          model |-> OrElse(resp.data.model, fallbackModel)])
          ELSE Fulfilled([content |-> MockContent(providerId, prompt, thrown[1]),
                          model |-> fallbackModel \o <<" (mock)">>])

\* callAIModel settles without any request when the prompt is blank or the
\* provider is not one of the three it dispatches on
SettlesAtOnce(providerId, prompt) ==
  \/ ~Truthy(prompt)
  \/ ~Truthy(Trim(prompt))
  \/ providerId \notin {"anthropic", "openai", "gemini"}

\* callAIModel ending in an empty answer instead of the throw
callAIModelFallsBack(providerId, prompt, model, resp) ==
  IF ~Truthy(prompt) \/ ~Truthy(Trim(prompt))
  THEN Fulfilled([content |-> <<>>, model |-> OrElse(model, DefaultModelOf(providerId))])
  ELSE IF providerId \in {"anthropic", "openai", "gemini"}
  THEN performBackendRequest(providerId, prompt, model, resp)
  ELSE Fulfilled([content |-> <<>>, model |-> OrElse(model, DefaultModelOf(providerId))])

\* the promise callAIModel returns, once the backend has answered with resp
callAIModel(providerId, prompt, model, resp) ==
  IF ~Truthy(prompt) \/ ~Truthy(Trim(prompt))
  THEN Fulfilled([content |-> <<>>, model |-> OrElse(model, DefaultModelOf(providerId))])
  ELSE IF providerId \in {"anthropic", "openai", "gemini"}
  THEN performBackendRequest(providerId, prompt, model, resp)
  ELSE Rejected(<<"Unsupported provider: ", providerId>>)

\* the promise right after the call is made
Launch(providerId, prompt, model) ==
  IF SettlesAtOnce(providerId, prompt)
  THEN callAIModel(providerId, prompt, model, RespNetworkError)
  ELSE Pending

(* ------------------------------ src/App.js ----------------------------- *)
UserTurn(text) == [sender |-> "user", text |-> text]
AssistantTurn(text) == [sender |-> "assistant", text |-> text]

RECURSIVE JoinTurns(_)
JoinTurns(lines) ==
  IF lines = <<>> THEN <<>>
  ELSE IF Len(lines) = 1 THEN lines[1]
  ELSE lines[1] \o <<"\n\n">> \o JoinTurns(Tail(lines))

RECURSIVE TurnLines(_)
TurnLines(conversation) ==
  IF conversation = <<>> THEN <<>>
  ELSE LET message == Head(conversation)
           rest == TurnLines(Tail(conversation))
       IN IF Truthy(message.text)
          THEN << <<IF message.sender = "user" THEN "User" ELSE "Assistant", ": ">>
                    \o message.text >> \o rest
          ELSE rest

\* a rendering that sends the newest turn alone, without the turns before it
formatConversationForPromptNewestOnly(conversation) ==
  IF conversation = <<>> THEN <<>>
  ELSE JoinTurns(TurnLines(<<conversation[Len(conversation)]>>))

formatConversationForPrompt(conversation) == JoinTurns(TurnLines(conversation))

(* --------------------------- the prompt library ------------------------ *)
\* an entry of the library; description and tags are display-only
LibraryItem(id, title, content, isDefault) ==
  [id |-> id, title |-> title, content |-> content, isDefault |-> isDefault]

DEFAULT_PROMPT_LIBRARY ==
  << LibraryItem(<<"prompt-product-kickoff">>, <<"Product Kickoff Summary">>,
                 <<"You are a product lead preparing a kickoff summary ...">>, TRUE),
     LibraryItem(<<"prompt-engineering-handoff">>, <<"Engineering Handoff Checklist">>,
                 <<"You are an engineering manager reviewing a new feature ...">>, TRUE),
     LibraryItem(<<"prompt-meeting-recap">>, <<"Meeting Recap & Actions">>,
                 <<"Draft a follow-up email for our latest meeting. ...">>, TRUE) >>

DEFAULT_GIT_COMMANDS ==
  << LibraryItem(<<"git-status">>, <<"Check working tree status">>, <<"git status">>, TRUE),
     LibraryItem(<<"git-pull">>, <<"Sync with remote main">>, <<"git pull origin main">>, TRUE),
     LibraryItem(<<"git-new-branch">>, <<"Create and switch to a new branch">>,
                 <<"git checkout -b feature/your-branch-name">>, TRUE),
     LibraryItem(<<"git-stage-all">>, <<"Stage all changes">>, <<"git add .">>, TRUE),
     LibraryItem(<<"git-commit">>, <<"Commit staged changes">>,
                 <<"git commit -m \"Short, descriptive message\"">>, TRUE),
     LibraryItem(<<"git-push">>, <<"Push branch to origin">>,
                 <<"git push origin feature/your-branch-name">>, TRUE),
     LibraryItem(<<"git-fetch-prune">>, <<"Fetch & clean remote tracking refs">>,
                 <<"git fetch --prune">>, TRUE),
     LibraryItem(<<"git-stash">>, <<"Stash local changes">>,
                 <<"git stash push -m \"wip\"">>, TRUE) >>

\* a stored item is null, or an object with id ('' when it has none), title,
\* content and an isDefault that may be missing
StoredItem(id, title, content, isDefault) ==
  [type |-> "object", id |-> id, title |-> title, content |-> content,
   isDefault |-> isDefault]

\* one step of stored.forEach on the result so far
MergeItem(defaults, result, item) ==
  IF item.type = "null" \/ ~Truthy(item.id) THEN result
  ELSE IF \E n \in DOMAIN defaults : defaults[n].id = item.id
  THEN [n \in DOMAIN result |->
          IF n = (CHOOSE m \in DOMAIN result :
                    result[m].id = item.id /\ \A k \in 1..(m - 1) : result[k].id # item.id)
          THEN LibraryItem(item.id, item.title, item.content, TRUE)
          ELSE result[n]]
  ELSE Append(result, LibraryItem(item.id, item.title, item.content,
                                  item.isDefault = Some(TRUE)))

RECURSIVE MergeFrom(_, _, _)
MergeFrom(defaults, result, stored) ==
  IF stored = <<>> THEN result
  ELSE MergeFrom(defaults, MergeItem(defaults, result, Head(stored)), Tail(stored))

\* stored is the items of the stored array, <<>> when the section is absent
mergeLibrarySection(defaults, stored) == MergeFrom(defaults, defaults, stored)

DefaultLibrary ==
  [prompts |-> mergeLibrarySection(DEFAULT_PROMPT_LIBRARY, <<>>),
   commands |-> mergeLibrarySection(DEFAULT_GIT_COMMANDS, <<>>)]

\* forEach exists on an array only, and the default [] stands in for
\* undefined only
SectionThrows(section) == section.type \notin {"undefined", "array"}

SectionItems(section) == IF section.type = "array" THEN section.items ELSE <<>>

\* storedValue: nothing stored, a text that is not JSON, the JSON null, or
\* an object whose prompts and commands are any JSON value
loadLibraryFromStorage(storedValue) ==
  IF storedValue.kind \in {"none", "unparsable", "null"} THEN DefaultLibrary
  ELSE IF SectionThrows(storedValue.prompts) \/ SectionThrows(storedValue.commands)
  THEN DefaultLibrary
  ELSE [prompts |-> mergeLibrarySection(DEFAULT_PROMPT_LIBRARY,
                                        SectionItems(storedValue.prompts)),
        commands |-> mergeLibrarySection(DEFAULT_GIT_COMMANDS,
                                         SectionItems(storedValue.commands))]

NothingStored == [kind |-> "none"]

VARIABLES
  prompt,              \* the prompt textarea
  models,              \* the configured model instances, in list order
  modelResponses,      \* instance id -> recorded outcome
  modelConversations,  \* instance id -> sequence of turns
  replyStates,         \* instance id -> [isOpen, value]
  replyLoading,        \* instance id -> BOOLEAN
  loading,             \* a top-level round is running
  error,               \* the page-level error message, None when null
  managerMessage,      \* the model manager's message, None when null
  round,               \* the running handleSubmit call: its closure and its promises
  replyCalls,          \* the running handleReplySubmit calls, in launch order
  now,                 \* the last value Date.now() returned
  rounds, replies, edits, \* operation counters
  caps,                   \* the bounds on the counters in this exploration
  invocation,             \* a direct call of an exported function: arguments and result
  library,                \* [prompts, commands]: the saved entries of each section
  promptDraftError,       \* the error under the prompt form, None when null
  commandDraftError,      \* the error under the command form, None when null
  activeTab,              \* the tab shown
  isComparisonToolsOpen   \* the model manager panel is open

uiVars == <<library, promptDraftError, commandDraftError, activeTab, isComparisonToolsOpen>>

vars == <<prompt, models, modelResponses, modelConversations, replyStates, replyLoading,
          loading, error, managerMessage, round, replyCalls, now, rounds, replies, edits, caps, invocation, uiVars>>

\* the library, the forms and the tabs after the first render with an
\* empty localStorage
UiIdle ==
  /\ library = loadLibraryFromStorage(NothingStored)
  /\ promptDraftError = None
  /\ commandDraftError = None
  /\ activeTab = "ai-comparison"
  /\ isComparisonToolsOpen = FALSE

DefaultModels ==
  << [id |-> <<"anthropic", "-", "default">>, providerId |-> "anthropic",
      model |-> PROVIDER_CONFIG["anthropic"].defaultModel, isActive |-> TRUE],
     [id |-> <<"openai", "-", "default">>, providerId |-> "openai",
      model |-> PROVIDER_CONFIG["openai"].defaultModel, isActive |-> TRUE],
     [id |-> <<"gemini", "-", "default">>, providerId |-> "gemini",
      model |-> PROVIDER_CONFIG["gemini"].defaultModel, isActive |-> TRUE] >>

NoRound == [activeModels |-> <<>>, prompt |-> <<>>, received |-> <<>>, results |-> <<>>]

NoCall == [fn |-> "none", done |-> TRUE]

\* the state after the first render; c bounds the exploration
InitWith(c) ==
  /\ prompt = <<>>
  /\ models = DefaultModels
  /\ modelResponses = EmptyMap
  /\ modelConversations = EmptyMap
  /\ replyStates = EmptyMap
  /\ replyLoading = EmptyMap
  /\ loading = FALSE
  /\ error = None
  /\ managerMessage = None
  /\ round = NoRound
  /\ replyCalls = <<>>
  /\ now = 0
  /\ rounds = 0
  /\ replies = 0
  /\ edits = 0
  /\ caps = c
  /\ invocation = NoCall
  /\ UiIdle

Init == InitWith([rounds |-> MaxRounds, replies |-> MaxReplies, edits |-> MaxEdits])

IsActive(model) == model.isActive

\* models.filter((model) => model.isActive)
activeModels == SelectSeq(models, IsActive)

\* the values a user types into the prompt textarea
Prompts == {<<" ">>, <<"hi">>}
\* the same without the blank one; the textarea starts out empty
NonBlankPrompts == {<<"hi">>}

handlePromptChange(value) ==
  /\ ~loading
  /\ prompt' = value
  /\ UNCHANGED <<models, modelResponses, modelConversations, replyStates, replyLoading,
                 loading, error, managerMessage, round, replyCalls, now, rounds, replies, edits, caps, invocation, uiVars>>

\* a reduce that keeps the turns an instance already has
RECURSIVE InitialConversationsKeepsHistory(_, _)
InitialConversationsKeepsHistory(active, text) ==
  IF active = <<>> THEN EmptyMap
  ELSE Put(InitialConversationsKeepsHistory(SubSeq(active, 1, Len(active) - 1), text),
           active[Len(active)].id,
           (IF active[Len(active)].id \in DOMAIN modelConversations
            THEN modelConversations[active[Len(active)].id] ELSE <<>>) \o <<UserTurn(text)>>)

\* a reduce that starts from the histories there are, so that an instance
\* left out of the round keeps its own
InitialConversationsKeepsOthers(active, text) ==
  LET activeIds == {active[n].id : n \in DOMAIN active}
  IN [id \in DOMAIN modelConversations \cup activeIds |->
        IF id \in activeIds THEN <<UserTurn(text)>> ELSE modelConversations[id]]

\* activeModels.reduce((acc, model) => { acc[model.id] = [user turn]; ... }, {})
RECURSIVE InitialConversations(_, _)
InitialConversations(active, text) ==
  IF active = <<>> THEN EmptyMap
  ELSE Put(InitialConversations(SubSeq(active, 1, Len(active) - 1), text),
           active[Len(active)].id, <<UserTurn(text)>>)

\* the handler without its two early returns
handleSubmitWithoutChecks ==
  /\ ~loading
  /\ rounds < caps.rounds
  /\ managerMessage' = None
  /\ loading' = TRUE
  /\ error' = None
  /\ modelResponses' = EmptyMap
  /\ replyStates' = EmptyMap
  /\ replyLoading' = EmptyMap
  /\ modelConversations' = InitialConversations(activeModels, prompt)
  /\ round' = [activeModels |-> activeModels,
               prompt |-> prompt,
               received |-> [i \in 1..Len(activeModels) |-> None],
               results |-> [i \in 1..Len(activeModels) |->
                              Launch(activeModels[i].providerId, prompt,
                                     activeModels[i].model)]]
  /\ rounds' = rounds + 1
  /\ UNCHANGED <<prompt, models, replyCalls, now, replies, edits, caps, invocation, uiVars>>

handleSubmit ==
  /\ ~loading
  /\ rounds < caps.rounds
  /\ managerMessage' = None
  /\ IF ~Truthy(Trim(prompt))
     THEN UNCHANGED <<prompt, models, modelResponses, modelConversations, replyStates,
                      replyLoading, loading, error, round, replyCalls, now, rounds,
                      replies, edits, caps, invocation, uiVars>>
     ELSE IF Len(activeModels) = 0
     THEN /\ error' = Some(<<"Select at least one model to run the comparison.">>)
          /\ UNCHANGED <<prompt, models, modelResponses, modelConversations, replyStates,
                         replyLoading, loading, round, replyCalls, now, rounds, replies,
                         edits, caps, invocation, uiVars>>
     ELSE /\ loading' = TRUE
          /\ error' = None
          /\ modelResponses' = EmptyMap
          /\ replyStates' = EmptyMap
          /\ replyLoading' = EmptyMap
          /\ modelConversations' = InitialConversations(activeModels, prompt)
          /\ round' = [activeModels |-> activeModels,
                       prompt |-> prompt,
                       received |-> [i \in 1..Len(activeModels) |-> None],
                       results |-> [i \in 1..Len(activeModels) |->
                                      Launch(activeModels[i].providerId, prompt,
                                             activeModels[i].model)]]
          /\ rounds' = rounds + 1
          /\ UNCHANGED <<prompt, models, replyCalls, now, replies, edits, caps, invocation, uiVars>>

\* the backend's answer to the i-th call of the round reaches the client
callResponds(i, resp) ==
  /\ loading
  /\ i \in DOMAIN round.results
  /\ round.results[i] = Pending
  /\ round' = [round EXCEPT !.received[i] = Some(resp),
                             !.results[i] =
                 callAIModel(round.activeModels[i].providerId, round.prompt,
                             round.activeModels[i].model, resp)]
  /\ UNCHANGED <<prompt, models, modelResponses, modelConversations, replyStates, replyLoading,
                 loading, error, managerMessage, replyCalls, now, rounds, replies, edits, caps, invocation, uiVars>>

\* postAnthropicJSON gives up after 25 s: the proxy answers 500 with the
\* timeout message.  Only the Anthropic route has a timeout.
HasUpstreamTimeout(providerId) == providerId = "anthropic"

callTimesOut(i) ==
  /\ loading
  /\ i \in DOMAIN round.results
  /\ round.results[i] = Pending
  /\ HasUpstreamTimeout(round.activeModels[i].providerId)
  /\ round' = [round EXCEPT !.received[i] = Some(RespAnthropicTimeout),
                             !.results[i] =
                 callAIModel(round.activeModels[i].providerId, round.prompt,
                             round.activeModels[i].model, RespAnthropicTimeout)]
  /\ UNCHANGED <<prompt, models, modelResponses, modelConversations, replyStates, replyLoading,
                 loading, error, managerMessage, replyCalls, now, rounds, replies, edits, caps, invocation, uiVars>>

\* a join that resolves with the first promise to settle
AnySettled(results) == results = <<>> \/ \E i \in DOMAIN results : results[i] # Pending

\* Promise.allSettled resolves when no promise is pending any more
AllSettled(results) == \A i \in DOMAIN results : results[i] # Pending

\* result.reason?.message
ReasonOf(result) == IF "reason" \in DOMAIN result THEN result.reason ELSE <<>>

\* the entry handleSubmit records for one settled promise
OutcomeOf(result, model) ==
  IF result.status = "fulfilled"
  THEN result.value
  ELSE [error |-> OrElse(ReasonOf(result), <<"Failed to get a response.">>),
        model |-> model.model]

\* a forEach that records the fulfilled promises only
RECURSIVE NextResponsesFulfilledOnly(_, _)
NextResponsesFulfilledOnly(active, results) ==
  IF active = <<>> THEN EmptyMap
  ELSE LET n == Len(active)
           rest == NextResponsesFulfilledOnly(SubSeq(active, 1, n - 1), SubSeq(results, 1, n - 1))
       IN IF results[n].status = "fulfilled"
          THEN Put(rest, active[n].id, results[n].value)
          ELSE rest

\* results.forEach((result, index) => { nextResponses[model.id] = ... })
RECURSIVE NextResponses(_, _)
NextResponses(active, results) ==
  IF active = <<>> THEN EmptyMap
  ELSE LET n == Len(active)
       IN Put(NextResponses(SubSeq(active, 1, n - 1), SubSeq(results, 1, n - 1)),
              active[n].id, OutcomeOf(results[n], active[n]))

\* value?.content of a settled promise is truthy
HasContent(result) ==
  /\ result.status = "fulfilled"
  /\ Truthy(result.value.content)

\* prev[id] || []
ConversationOf(conversations, id) ==
  IF id \in DOMAIN conversations THEN conversations[id] ELSE <<>>

\* an updater that gives every fulfilled call an assistant turn, with or
\* without content
RECURSIVE AppendAssistantTurnsAlways(_, _, _)
AppendAssistantTurnsAlways(prev, active, results) ==
  IF active = <<>> THEN prev
  ELSE LET n == Len(active)
           next == AppendAssistantTurnsAlways(prev, SubSeq(active, 1, n - 1),
                                              SubSeq(results, 1, n - 1))
       IN IF results[n].status = "fulfilled"
          THEN Put(next, active[n].id,
                   ConversationOf(next, active[n].id)
                     \o <<AssistantTurn(results[n].value.content)>>)
          ELSE next

\* the updater passed to setModelConversations when the round is over
RECURSIVE AppendAssistantTurns(_, _, _)
AppendAssistantTurns(prev, active, results) ==
  IF active = <<>> THEN prev
  ELSE LET n == Len(active)
           next == AppendAssistantTurns(prev, SubSeq(active, 1, n - 1),
                                        SubSeq(results, 1, n - 1))
       IN IF HasContent(results[n])
          THEN Put(next, active[n].id,
                   ConversationOf(next, active[n].id)
                     \o <<AssistantTurn(results[n].value.content)>>)
          ELSE next

\* the continuation of handleSubmit had it awaited Promise.all: the first
\* rejection lands in the catch block and no outcome is recorded
roundCompletesFailFast ==
  /\ loading
  /\ \/ /\ \E i \in DOMAIN round.results : round.results[i].status = "rejected"
        /\ error' = Some(<<"An error occurred while fetching responses.">>)
        /\ UNCHANGED <<modelResponses, modelConversations>>
     \/ /\ \A i \in DOMAIN round.results : round.results[i].status = "fulfilled"
        /\ modelResponses' = NextResponses(round.activeModels, round.results)
        /\ modelConversations' =
             AppendAssistantTurns(modelConversations, round.activeModels, round.results)
        /\ UNCHANGED error
  /\ loading' = FALSE
  /\ round' = NoRound
  /\ UNCHANGED <<prompt, models, replyStates, replyLoading, managerMessage,
                 replyCalls, now, rounds, replies, edits, caps, invocation, uiVars>>

\* the continuation of handleSubmit after the await
roundCompletes ==
  /\ loading
  /\ AllSettled(round.results)
  /\ modelResponses' = NextResponses(round.activeModels, round.results)
  /\ modelConversations' =
       AppendAssistantTurns(modelConversations, round.activeModels, round.results)
  /\ loading' = FALSE
  /\ round' = NoRound
  /\ UNCHANGED <<prompt, models, replyStates, replyLoading, error, managerMessage,
                 replyCalls, now, rounds, replies, edits, caps, invocation, uiVars>>

(* ---------------------------- model manager ---------------------------- *)
\* The provider <select> offers the known providers; the handlers accept any
\* value and treat an unknown one as a provider without defaults.
ProviderChoices == {"openai", "mistral"}
ModelChoices == {<<>>}

HasModel(id) == \E k \in DOMAIN models : models[k].id = id

\* field is 'providerId' or 'model'; the name and apiKey fields are not part
\* of the modelled configuration
handleModelFieldChange(id, field, value) ==
  /\ edits < caps.edits
  /\ HasModel(id)
  /\ models' = [k \in DOMAIN models |->
                  IF models[k].id # id THEN models[k]
                  ELSE IF field = "providerId"
                  THEN [models[k] EXCEPT !.providerId = value,
                                         !.model = DefaultModelOf(value)]
                  ELSE [models[k] EXCEPT !.model = value]]
  /\ edits' = edits + 1
  /\ UNCHANGED <<prompt, modelResponses, modelConversations, replyStates, replyLoading,
                 loading, error, managerMessage, round, replyCalls, now, rounds, replies, caps, invocation, uiVars>>

handleToggleActive(id) ==
  /\ edits < caps.edits
  /\ HasModel(id)
  /\ models' = [k \in DOMAIN models |->
                  IF models[k].id = id
                  THEN [models[k] EXCEPT !.isActive = ~models[k].isActive]
                  ELSE models[k]]
  /\ edits' = edits + 1
  /\ UNCHANGED <<prompt, modelResponses, modelConversations, replyStates, replyLoading,
                 loading, error, managerMessage, round, replyCalls, now, rounds, replies, caps, invocation, uiVars>>

handleRemoveModel(id) ==
  /\ edits < caps.edits
  /\ HasModel(id)
  /\ LET Others(model) == model.id # id
     IN models' = SelectSeq(models, Others)
  /\ edits' = edits + 1
  /\ UNCHANGED <<prompt, modelResponses, modelConversations, replyStates, replyLoading,
                 loading, error, managerMessage, round, replyCalls, now, rounds, replies, caps, invocation, uiVars>>

\* Date.now() rendered in the id
TimeStr(t) == CASE t = 0 -> "1700000000000"
                [] t = 1 -> "1700000000001"
                [] t = 2 -> "1700000000002"
                [] OTHER -> "1700000000003"

\* newModel is the draft of the add form (set by handleNewModelChange, which
\* nothing gates); t is the value Date.now() returns
handleAddModel(newModel, t) ==
  /\ edits < caps.edits
  /\ t >= now
  /\ IF ~Truthy(Trim(newModel.name)) \/ ~Truthy(Trim(newModel.model))
     THEN /\ managerMessage' = Some(<<"Add a name and model identifier before saving.">>)
          /\ UNCHANGED <<models, now>>
     ELSE /\ models' = Append(models,
                         [id |-> <<newModel.providerId, "-", TimeStr(t)>>,
                          providerId |-> newModel.providerId,
                          model |-> Trim(newModel.model),
                          isActive |-> TRUE])
          /\ now' = t
          /\ managerMessage' = Some(<<"Model added. Authenticate to validate custom keys.">>)
  /\ edits' = edits + 1
  /\ UNCHANGED <<prompt, modelResponses, modelConversations, replyStates, replyLoading,
                 loading, error, round, replyCalls, rounds, replies, caps, invocation, uiVars>>

NewModelDrafts ==
  [providerId : {"openai"}, name : {<<>>, <<"Mine">>}, model : {<<"custom-model", " ">>}]

(* ------------------------------ follow-ups ----------------------------- *)
ClosedReply == [isOpen |-> FALSE, value |-> <<>>]

\* replyStates[id] || { isOpen: false, value: '' }
ReplyStateOf(id) == IF id \in DOMAIN replyStates THEN replyStates[id] ELSE ClosedReply

\* Boolean(replyLoading[id])
isReplyInFlight(id) == id \in DOMAIN replyLoading /\ replyLoading[id]

hasAssistantMessages(id) ==
  \E n \in DOMAIN ConversationOf(modelConversations, id) :
     ConversationOf(modelConversations, id)[n].sender = "assistant"

\* Boolean(response?.error)
hasError(id) ==
  /\ id \in DOMAIN modelResponses
  /\ "error" \in DOMAIN modelResponses[id]
  /\ Truthy(modelResponses[id].error)

canReply(id) == hasAssistantMessages(id) /\ ~loading /\ ~isReplyInFlight(id) /\ ~hasError(id)

\* a response card is rendered for every active model
CardShown(id) == \E k \in DOMAIN models : models[k].id = id /\ models[k].isActive

\* the Reply / Close Reply button, or the Cancel button of the open form
handleReplyToggle(modelId) ==
  /\ CardShown(modelId)
  /\ ReplyStateOf(modelId).isOpen \/ Cardinality(DOMAIN replyStates) < MaxOpenForms
  /\ \/ hasAssistantMessages(modelId) /\ canReply(modelId)
     \/ ReplyStateOf(modelId).isOpen /\ ~isReplyInFlight(modelId)
  /\ LET current == ReplyStateOf(modelId)
         nextIsOpen == ~current.isOpen
     IN replyStates' = PutOr(replyStates, modelId,
                             IF nextIsOpen THEN [current EXCEPT !.isOpen = TRUE]
                             ELSE ClosedReply, ClosedReply)
  /\ UNCHANGED <<prompt, models, modelResponses, modelConversations, replyLoading, loading,
                 error, managerMessage, round, replyCalls, now, rounds, replies, edits, caps, invocation, uiVars>>

ReplyValues == {<<"more", " ">>}

\* the textarea of the open reply form
handleReplyChange(modelId, value) ==
  /\ CardShown(modelId)
  /\ ReplyStateOf(modelId).isOpen
  /\ ~isReplyInFlight(modelId)
  /\ replyStates' = Put(replyStates, modelId, [isOpen |-> TRUE, value |-> value])
  /\ UNCHANGED <<prompt, models, modelResponses, modelConversations, replyLoading, loading,
                 error, managerMessage, round, replyCalls, now, rounds, replies, edits, caps, invocation, uiVars>>

\* what the continuation of handleReplySubmit does with the settled promise
ReplyResponsesAfter(responses, call, result) ==
  IF result.status = "fulfilled"
  THEN Put(responses, call.model.id, result.value)
  ELSE Put(responses, call.model.id,
           [error |-> OrElse(result.reason, <<"Failed to get a response.">>),
            model |-> call.model.model])

\* a continuation that shows the rejection as an assistant turn
ReplyConversationsAfterAnyResult(conversations, call, result) ==
  Put(conversations, call.model.id,
      (IF call.model.id \in DOMAIN conversations
       THEN conversations[call.model.id]
       ELSE call.conversationWithUser)
        \o <<AssistantTurn(IF result.status = "fulfilled" THEN result.value.content
                           ELSE ReasonOf(result))>>)

ReplyConversationsAfter(conversations, call, result) ==
  IF HasContent(result)
  THEN Put(conversations, call.model.id,
           (IF call.model.id \in DOMAIN conversations
            THEN conversations[call.model.id]
            ELSE call.conversationWithUser)
             \o <<AssistantTurn(result.value.content)>>)
  ELSE conversations

ReplyStatesAfter(states, call, result) ==
  IF result.status = "fulfilled"
  THEN Put(states, call.model.id, [isOpen |-> TRUE, value |-> <<>>])
  ELSE states

\* k is the card whose form is submitted
handleReplySubmit(k) ==
  /\ replies < caps.replies
  /\ k \in DOMAIN models
  /\ models[k].isActive
  /\ ReplyStateOf(models[k].id).isOpen
  /\ ~isReplyInFlight(models[k].id)
  /\ Truthy(Trim(ReplyStateOf(models[k].id).value))
  /\ LET model == models[k]
         trimmedMessage == Trim(ReplyStateOf(model.id).value)
         existingConversation == ConversationOf(modelConversations, model.id)
         conversationWithUser == existingConversation \o <<UserTurn(trimmedMessage)>>
         promptPayload == formatConversationForPrompt(conversationWithUser)
         promise == Launch(model.providerId, promptPayload, model.model)
         call == [model |-> model, conversationWithUser |-> conversationWithUser,
                  prompt |-> promptPayload, received |-> None, promise |-> promise]
         withUser == Put(modelConversations, model.id, conversationWithUser)
     IN \* for an unsupported provider the promise is rejected from the start;
        \* the continuation runs as for any settled promise
        /\ replyLoading' = Put(replyLoading, model.id, TRUE)
        /\ modelConversations' = withUser
        /\ replyCalls' = Append(replyCalls, call)
        /\ UNCHANGED <<modelResponses, replyStates>>
  /\ replies' = replies + 1
  /\ UNCHANGED <<prompt, models, loading, error, managerMessage, round, now, rounds, edits, caps, invocation, uiVars>>

RemoveAt(s, k) == SubSeq(s, 1, k - 1) \o SubSeq(s, k + 1, Len(s))

\* the backend's answer to the k-th running follow-up reaches the client
replyResponds(k, resp) ==
  /\ k \in DOMAIN replyCalls
  /\ replyCalls[k].promise = Pending
  /\ replyCalls' = [replyCalls EXCEPT ![k].received = Some(resp),
                                      ![k].promise =
                      callAIModel(replyCalls[k].model.providerId, replyCalls[k].prompt,
                                  replyCalls[k].model.model, resp)]
  /\ UNCHANGED <<prompt, models, modelResponses, modelConversations, replyStates, replyLoading,
                 loading, error, managerMessage, round, now, rounds, replies, edits, caps, invocation, uiVars>>

replyTimesOut(k) ==
  /\ k \in DOMAIN replyCalls
  /\ replyCalls[k].promise = Pending
  /\ HasUpstreamTimeout(replyCalls[k].model.providerId)
  /\ replyCalls' = [replyCalls EXCEPT ![k].received = Some(RespAnthropicTimeout),
                                      ![k].promise =
                      callAIModel(replyCalls[k].model.providerId, replyCalls[k].prompt,
                                  replyCalls[k].model.model, RespAnthropicTimeout)]
  /\ UNCHANGED <<prompt, models, modelResponses, modelConversations, replyStates, replyLoading,
                 loading, error, managerMessage, round, now, rounds, replies, edits, caps, invocation, uiVars>>

\* the continuation of the k-th running handleReplySubmit after its await
replyCompletes(k) ==
  /\ k \in DOMAIN replyCalls
  /\ replyCalls[k].promise # Pending
  /\ modelResponses' = ReplyResponsesAfter(modelResponses, replyCalls[k], replyCalls[k].promise)
  /\ modelConversations' =
       ReplyConversationsAfter(modelConversations, replyCalls[k], replyCalls[k].promise)
  /\ replyStates' = ReplyStatesAfter(replyStates, replyCalls[k], replyCalls[k].promise)
  /\ replyLoading' = PutOr(replyLoading, replyCalls[k].model.id, FALSE, FALSE)
  /\ replyCalls' = RemoveAt(replyCalls, k)
  /\ UNCHANGED <<prompt, models, loading, error, managerMessage, round, now, rounds,
                 replies, edits, caps, invocation, uiVars>>

ModelIds == {models[k].id : k \in DOMAIN models}

\* what the follow-up rounds are answered with: a 2xx answer with content
RoundAnswers == {RespSuccess}
\* the cards the user replies on, and the one whose provider gets changed
FollowUpCards == {DefaultModels[1].id, DefaultModels[2].id}
EditedCards == {DefaultModels[2].id}

Next ==
  \/ \E value \in NonBlankPrompts : handlePromptChange(value)
  \/ handleSubmit
  \/ \E i \in 1..Len(round.results) : \E resp \in RoundAnswers : callResponds(i, resp)
  \/ \E i \in 1..Len(round.results) : callTimesOut(i)
  \/ roundCompletes
  \/ \E id \in EditedCards : \E value \in ProviderChoices :
        handleModelFieldChange(id, "providerId", value)
  \/ \E id \in FollowUpCards : handleReplyToggle(id)
  \/ \E id \in ModelIds : \E value \in ReplyValues : handleReplyChange(id, value)
  \/ \E k \in DOMAIN models : handleReplySubmit(k)
  \/ \E k \in DOMAIN replyCalls : \E resp \in AllResponses : replyResponds(k, resp)
  \/ \E k \in DOMAIN replyCalls : replyTimesOut(k)
  \/ \E k \in DOMAIN replyCalls : replyCompletes(k)

\* follow-ups under every kind of backend answer, on configurations whose
\* provider may have been changed
Spec == Init /\ [][Next]_vars

\* submissions and follow-ups on the three seeded configurations
ConvInit == InitWith([rounds |-> MaxConvRounds, replies |-> MaxConvReplies, edits |-> 0])

ConvNext ==
  \/ \E value \in NonBlankPrompts : handlePromptChange(value)
  \/ handleSubmit
  \/ \E i \in 1..Len(round.results) : \E resp \in Responses : callResponds(i, resp)
  \/ \E i \in 1..Len(round.results) : callTimesOut(i)
  \/ roundCompletes
  \/ \E id \in ModelIds : handleReplyToggle(id)
  \/ \E id \in ModelIds : \E value \in ReplyValues : handleReplyChange(id, value)
  \/ \E k \in DOMAIN models : handleReplySubmit(k)
  \/ \E k \in DOMAIN replyCalls : \E resp \in Responses : replyResponds(k, resp)
  \/ \E k \in DOMAIN replyCalls : replyTimesOut(k)
  \/ \E k \in DOMAIN replyCalls : replyCompletes(k)

ConvSpec == ConvInit /\ [][ConvNext]_vars

\* top-level rounds under every kind of backend answer, with the model
\* manager in use
DispatchInit ==
  InitWith([rounds |-> MaxDispatchRounds, replies |-> 0, edits |-> MaxDispatchEdits])

DispatchNext ==
  \/ \E value \in Prompts : handlePromptChange(value)
  \/ handleSubmit
  \/ \E i \in 1..Len(round.results) : \E resp \in AllResponses : callResponds(i, resp)
  \/ \E i \in 1..Len(round.results) : callTimesOut(i)
  \/ roundCompletes
  \/ \E id \in ModelIds : \E value \in ProviderChoices :
        handleModelFieldChange(id, "providerId", value)
  \/ \E id \in ModelIds : \E value \in ModelChoices : handleModelFieldChange(id, "model", value)
  \/ \E id \in ModelIds : handleToggleActive(id)
  \/ \E id \in ModelIds : handleRemoveModel(id)
  \/ \E newModel \in NewModelDrafts : \E t \in 0..MaxClock : handleAddModel(newModel, t)

DispatchSpec == DispatchInit /\ [][DispatchNext]_vars

\* one round on the seeded configurations.  The scheduler runs a ready
\* continuation and the proxy's timer fires; nothing obliges a provider to
\* answer.
FairInit == InitWith([rounds |-> MaxFairRounds, replies |-> 0, edits |-> 0])

FairNext ==
  \/ \E value \in Prompts : handlePromptChange(value)
  \/ handleSubmit
  \/ \E i \in 1..Len(round.results) : \E resp \in AllResponses : callResponds(i, resp)
  \/ \E i \in 1..Len(round.results) : callTimesOut(i)
  \/ roundCompletes

FairSpec ==
  /\ FairInit
  /\ [][FairNext]_vars
  /\ WF_vars(roundCompletes)
  /\ \A i \in 1..Len(DefaultModels) : WF_vars(callTimesOut(i))

\* submissions while the user switches configurations off: a round, then
\* every configuration switched off, then another submission
GuardInit ==
  InitWith([rounds |-> MaxGuardRounds, replies |-> 0, edits |-> MaxGuardEdits])

GuardNext ==
  \/ \E value \in Prompts : handlePromptChange(value)
  \/ handleSubmit
  \/ \E i \in 1..Len(round.results) : \E resp \in RoundAnswers : callResponds(i, resp)
  \/ roundCompletes
  \/ \E id \in ModelIds : handleToggleActive(id)

GuardSpec == GuardInit /\ [][GuardNext]_vars

\* the model manager on its own: configurations are added, removed, edited
\* and toggled, no prompt is submitted
ManagerInit == InitWith([rounds |-> 0, replies |-> 0, edits |-> MaxManagerEdits])

ManagerNext ==
  \/ \E id \in ModelIds : \E value \in ProviderChoices :
        handleModelFieldChange(id, "providerId", value)
  \/ \E id \in ModelIds : \E value \in ModelChoices : handleModelFieldChange(id, "model", value)
  \/ \E id \in ModelIds : handleToggleActive(id)
  \/ \E id \in ModelIds : handleRemoveModel(id)
  \/ \E newModel \in NewModelDrafts : \E t \in 0..MaxClock : handleAddModel(newModel, t)

ManagerSpec == ManagerInit /\ [][ManagerNext]_vars

(* --------------------- callAIModel called directly --------------------- *)
appVars == <<prompt, models, modelResponses, modelConversations, replyStates, replyLoading,
             loading, error, managerMessage, round, replyCalls, now, rounds, replies, edits,
             caps, uiVars>>

CallProviders == KnownProviders \cup {"mistral"}
CallPrompts == {<<>>, <<" ">>, <<"hi">>, <<" ", "hi", " ">>}
CallModels == {<<>>, <<"custom-model">>}

\* the module is loaded and callAIModel is about to be called with any
\* arguments; resp is the answer the backend will give if it is asked
CallInit ==
  /\ \E providerId \in CallProviders, p \in CallPrompts, model \in CallModels,
        resp \in AllResponses \cup {RespAnthropicTimeout} :
        invocation = [fn |-> "callAIModel", done |-> FALSE, providerId |-> providerId,
                      prompt |-> p, model |-> model, resp |-> resp, result |-> Pending]
  /\ prompt = <<>>
  /\ models = DefaultModels
  /\ modelResponses = EmptyMap
  /\ modelConversations = EmptyMap
  /\ replyStates = EmptyMap
  /\ replyLoading = EmptyMap
  /\ loading = FALSE
  /\ error = None
  /\ managerMessage = None
  /\ round = NoRound
  /\ replyCalls = <<>>
  /\ now = 0
  /\ rounds = 0
  /\ replies = 0
  /\ edits = 0
  /\ caps = [rounds |-> 0, replies |-> 0, edits |-> 0]
  /\ UiIdle

\* the promise callAIModel returned has settled
callSettles ==
  /\ invocation.fn = "callAIModel"
  /\ ~invocation.done
  /\ invocation' = [invocation EXCEPT
                      !.done = TRUE,
                      !.result = callAIModel(invocation.providerId, invocation.prompt,
                                             invocation.model, invocation.resp)]
  /\ UNCHANGED appVars

CallNext == callSettles

CallSpec == CallInit /\ [][CallNext]_vars

(* ======================= the proxy server (part_000) =================== *)
\* the client's state while the server is looked at on its own
AppIdle ==
  /\ prompt = <<>>
  /\ models = DefaultModels
  /\ modelResponses = EmptyMap
  /\ modelConversations = EmptyMap
  /\ replyStates = EmptyMap
  /\ replyLoading = EmptyMap
  /\ loading = FALSE
  /\ error = None
  /\ managerMessage = None
  /\ round = NoRound
  /\ replyCalls = <<>>
  /\ now = 0
  /\ rounds = 0
  /\ replies = 0
  /\ edits = 0
  /\ caps = [rounds |-> 0, replies |-> 0, edits |-> 0]
  /\ UiIdle

\* JSON values as a handler meets them: a missing field is undefined
JsonUndefined == [type |-> "undefined"]
JsonNull == [type |-> "null"]
JsonString(s) == [type |-> "string", value |-> s]
JsonArray(items) == [type |-> "array", items |-> items]
JsonNumber == [type |-> "number"]

\* a function call returns a value or throws an Error with a message
Returned(v) == [status |-> "returned", value |-> v]
Thrown(message) == [status |-> "thrown", message |-> message]

\* the server's registry; the fields the resolver reads
ProxyProviderConfig ==
  [p \in KnownProviders |->
     CASE p = "anthropic" -> [displayName |-> "Anthropic Claude",
                              defaultModel |-> <<"claude-3-haiku-20240307">>,
                              environmentKey |-> "ANTHROPIC_API_KEY"]
       [] p = "openai"    -> [displayName |-> "OpenAI ChatGPT",
                              defaultModel |-> <<"gpt-4o-mini">>,
                              environmentKey |-> "OPENAI_API_KEY"]
       [] p = "gemini"    -> [displayName |-> "Google Gemini",
                              defaultModel |-> <<"gemini-2.5-flash">>,
                              environmentKey |-> "GEMINI_API_KEY"]]

\* the names of process.env the server reads; a variable holds None
\* (undefined) or Some(string)
EnvNames == {"ALLOW_CLIENT_API_KEYS", "ANTHROPIC_API_KEY", "OPENAI_API_KEY", "GEMINI_API_KEY"}

\* process.env.ALLOW_CLIENT_API_KEYS === 'true'
allowClientOverride(env) == env["ALLOW_CLIENT_API_KEYS"] = Some(<<"true">>)

IsQuote(a) == a \in {"'", "\""}

\* s.replace(/^['"]|['"]$/g, ''): a quote at the start is removed, and a
\* quote at the end is removed, each on its own
StripQuotes(s) ==
  LET a == IF s # <<>> /\ IsQuote(Head(s)) THEN Tail(s) ELSE s
  IN IF a # <<>> /\ IsQuote(a[Len(a)]) THEN SubSeq(a, 1, Len(a) - 1) ELSE a

\* a reading of the environment that returns whatever sanitizing leaves
EnvironmentKeyOfUnchecked(providerId, env) ==
  LET config == ProxyProviderConfig[providerId]
      envKey == env[config.environmentKey]
  IN IF envKey = None
     THEN Thrown(<<"Missing API key. Define ", config.environmentKey,
                   " in the server environment or authenticate a key for ",
                   config.displayName, ".">>)
     ELSE Returned(StripQuotes(Trim(envKey[1])))

\* the lines of ensureApiKey that read the environment
EnvironmentKeyOf(providerId, env) ==
  LET config == ProxyProviderConfig[providerId]
      envKey == env[config.environmentKey]
  IN IF envKey = None \/ envKey[1] = <<>>
     THEN Thrown(<<"Missing API key. Define ", config.environmentKey,
                   " in the server environment or authenticate a key for ",
                   config.displayName, ".">>)
     ELSE LET sanitizedKey == StripQuotes(Trim(envKey[1]))
          IN IF sanitizedKey = <<>>
             THEN Thrown(<<"The environment variable ", config.environmentKey,
                           " is defined but empty.">>)
             ELSE Returned(sanitizedKey)

\* a resolver that takes a usable override whatever the server's flag says
ensureApiKeyIgnoringPolicy(providerId, overrideKey, env) ==
  IF providerId \notin DOMAIN ProxyProviderConfig
  THEN Thrown(<<"Unknown provider ", providerId>>)
  ELSE IF overrideKey.type \notin {"undefined", "null", "string"}
  THEN Thrown(<<"overrideKey?.trim is not a function">>)
  ELSE IF overrideKey.type = "string"
          /\ Trim(overrideKey.value) \notin {<<>>, <<"undefined">>, <<"null">>}
  THEN Returned(Trim(overrideKey.value))
  ELSE EnvironmentKeyOf(providerId, env)

ensureApiKey(providerId, overrideKey, env) ==
  IF providerId \notin DOMAIN ProxyProviderConfig
  THEN Thrown(<<"Unknown provider ", providerId>>)
  ELSE IF overrideKey.type \notin {"undefined", "null", "string"}
  THEN \* overrideKey?.trim() on a value that has no trim method
       Thrown(<<"overrideKey?.trim is not a function">>)
  ELSE LET explicitKey == IF overrideKey.type = "string" THEN Trim(overrideKey.value) ELSE <<>>
       IN IF /\ Truthy(explicitKey)
             /\ explicitKey # <<"undefined">>
             /\ explicitKey # <<"null">>
             /\ allowClientOverride(env)
          THEN Returned(explicitKey)
          ELSE EnvironmentKeyOf(providerId, env)

(* ------------------- ensureApiKey called directly ---------------------- *)
RECURSIVE StringsUpTo(_, _)
\* the strings of at most n atoms over an alphabet
StringsUpTo(alphabet, n) ==
  IF n = 0 THEN {<<>>}
  ELSE LET shorter == StringsUpTo(alphabet, n - 1)
       IN shorter \cup {Append(s, a) : s \in shorter, a \in alphabet}

\* what the provider's environment variable may hold
EnvAlphabet == {"k", " ", "'", "\""}
EnvValues == {None} \cup {Some(s) : s \in StringsUpTo(EnvAlphabet, MaxEnvLen)}

\* what a request may carry as apiKey
OverrideAlphabet == {"o", " ", "undefined", "null"}
OverrideValues ==
  {JsonUndefined, JsonNull, JsonNumber}
    \cup {JsonString(s) : s \in StringsUpTo(OverrideAlphabet, MaxOverrideLen)}

FlagValues == {None, Some(<<"true">>), Some(<<"1">>)}

KeyProviders == KnownProviders \cup {"mistral"}

\* the environment in which the variable called name holds value; the
\* other providers' variables hold a key of their own
EnvWith(flag, name, value) ==
  [n \in EnvNames |->
     IF n = "ALLOW_CLIENT_API_KEYS" THEN flag
     ELSE IF n = name THEN value
     ELSE Some(<<"key-of-", n>>)]

EnvironmentKeyName(providerId) ==
  IF providerId \in DOMAIN ProxyProviderConfig
  THEN ProxyProviderConfig[providerId].environmentKey
  ELSE "ANTHROPIC_API_KEY"

KeyInit ==
  /\ \E providerId \in KeyProviders, overrideKey \in OverrideValues,
        flag \in FlagValues, value \in EnvValues :
        invocation = [fn |-> "ensureApiKey", done |-> FALSE, providerId |-> providerId,
                      overrideKey |-> overrideKey,
                      env |-> EnvWith(flag, EnvironmentKeyName(providerId), value),
                      calls |-> 1, previous |-> None, result |-> Pending]
  /\ AppIdle

\* a resolver that keeps the credential it resolved for a provider
ensureApiKeyReturnsCached ==
  /\ invocation.fn = "ensureApiKey"
  /\ ~invocation.done
  /\ invocation' = [invocation EXCEPT
                      !.done = TRUE,
                      !.result = IF /\ invocation.previous # None
                                    /\ invocation.previous[1].providerId = invocation.providerId
                                 THEN invocation.previous[1].result
                                 ELSE ensureApiKey(invocation.providerId,
                                                   invocation.overrideKey, invocation.env)]
  /\ UNCHANGED appVars

\* ensureApiKey runs to its return or throw; it assigns to nothing outside
ensureApiKeyReturns ==
  /\ invocation.fn = "ensureApiKey"
  /\ ~invocation.done
  /\ invocation' = [invocation EXCEPT
                      !.done = TRUE,
                      !.result = ensureApiKey(invocation.providerId, invocation.overrideKey,
                                              invocation.env)]
  /\ UNCHANGED appVars

KeyNext == ensureApiKeyReturns

KeySpec == KeyInit /\ [][KeyNext]_vars

(* ------------------- ensureApiKey called repeatedly -------------------- *)
RekeyProviders == {"anthropic", "gemini"}
RekeyOverrides == {JsonUndefined, JsonString(<<" ", "o">>)}
RekeyFlags == {None, Some(<<"true">>)}
RekeyEnvValues == {None, Some(<<"k">>), Some(<<"'", "j", "'">>)}

RekeyInit ==
  /\ \E providerId \in RekeyProviders, overrideKey \in RekeyOverrides,
        flag \in RekeyFlags, value \in RekeyEnvValues :
        invocation = [fn |-> "ensureApiKey", done |-> FALSE, providerId |-> providerId,
                      overrideKey |-> overrideKey,
                      env |-> EnvWith(flag, "ANTHROPIC_API_KEY", value),
                      envAtCall |-> EnvWith(flag, "ANTHROPIC_API_KEY", value),
                      calls |-> 1, previous |-> None, result |-> Pending]
  /\ AppIdle

\* a later request makes the server call ensureApiKey again
ensureApiKeyCalledAgain(providerId, overrideKey) ==
  /\ invocation.fn = "ensureApiKey"
  /\ invocation.done
  /\ invocation.calls < MaxKeyCalls
  /\ invocation' = [invocation EXCEPT
                      !.done = FALSE,
                      !.providerId = providerId,
                      !.overrideKey = overrideKey,
                      !.calls = invocation.calls + 1,
                      !.previous = Some([providerId |-> invocation.providerId,
                                         overrideKey |-> invocation.overrideKey,
                                         env |-> invocation.envAtCall,
                                         result |-> invocation.result]),
                      !.envAtCall = invocation.env,
                      !.result = Pending]
  /\ UNCHANGED appVars

\* the operator changes a variable of the server's environment between two
\* requests
environmentChanges(name, value) ==
  /\ invocation.fn = "ensureApiKey"
  /\ invocation.done
  /\ invocation.calls < MaxKeyCalls
  /\ invocation.env[name] # value
  /\ invocation' = [invocation EXCEPT !.env[name] = value]
  /\ UNCHANGED appVars

RekeyNext ==
  \/ ensureApiKeyReturns
  \/ \E providerId \in RekeyProviders, overrideKey \in RekeyOverrides :
        ensureApiKeyCalledAgain(providerId, overrideKey)
  \/ \E value \in RekeyFlags : environmentChanges("ALLOW_CLIENT_API_KEYS", value)
  \/ \E value \in RekeyEnvValues : environmentChanges("ANTHROPIC_API_KEY", value)

RekeySpec == RekeyInit /\ [][RekeyNext]_vars

(* ------------------------ response normalisation ----------------------- *)
RECURSIVE JoinWith(_, _)
\* fragments.join(separator)
JoinWith(fragments, separator) ==
  IF fragments = <<>> THEN <<>>
  ELSE IF Len(fragments) = 1 THEN fragments[1]
  ELSE fragments[1] \o <<separator>> \o JoinWith(Tail(fragments), separator)

NonEmpty(s) == s # <<>>

\* a content block of an Anthropic answer: a string, or an object that may
\* carry text or content
BlockText(block) ==
  IF block.type = "string" THEN block.value
  ELSE OrElse(block.text, block.content)

RECURSIVE MapBlocks(_)
MapBlocks(blocks) ==
  IF blocks = <<>> THEN <<>> ELSE <<BlockText(Head(blocks))>> \o MapBlocks(Tail(blocks))

\* contentBlocks is data.content: the default [] stands in for undefined
\* only, and .map exists on an array only
parseAnthropicContent(contentBlocks) ==
  IF contentBlocks.type = "null"
  THEN Thrown(<<"Cannot read properties of null (reading 'map')">>)
  ELSE IF contentBlocks.type \notin {"undefined", "array"}
  THEN Thrown(<<"contentBlocks.map is not a function">>)
  ELSE Returned(JoinWith(SelectSeq(MapBlocks(IF contentBlocks.type = "array"
                                             THEN contentBlocks.items ELSE <<>>),
                                   NonEmpty), "\n"))

\* a part of a Gemini candidate: a string, or an object whose text is a
\* string or is missing
PartText(part) ==
  IF part.type = "string" THEN part.value
  ELSE IF part.text.type = "string" THEN part.text.value
  ELSE <<>>

RECURSIVE MapParts(_)
MapParts(parts) ==
  IF parts = <<>> THEN <<>> ELSE <<Trim(PartText(Head(parts)))>> \o MapParts(Tail(parts))

textFragments(parts) == SelectSeq(MapParts(parts), NonEmpty)

DefaultMaxOutputTokens == 2048

\* ${maxOutputTokens || 'the current'}
TokenLimit(maxOutputTokens) ==
  IF maxOutputTokens = 0 THEN "the current" ELSE ToString(maxOutputTokens)

IsBlocked(rating) == rating.blocked

RECURSIVE Categories(_)
\* .map((rating) => rating.category).filter(Boolean)
Categories(ratings) ==
  IF ratings = <<>> THEN <<>>
  ELSE (IF Head(ratings).category # "" THEN <<<<Head(ratings).category>>>> ELSE <<>>)
         \o Categories(Tail(ratings))

\* the safety ratings the explanation is built from
safetyRatings(data) ==
  IF data.candidate # None /\ data.candidate[1].safetyRatings # None
  THEN data.candidate[1].safetyRatings[1]
  ELSE IF data.promptFeedback # None /\ data.promptFeedback[1].safetyRatings # None
  THEN data.promptFeedback[1].safetyRatings[1]
  ELSE <<>>

blockedCategories(data) == Categories(SelectSeq(safetyRatings(data), IsBlocked))

\* primaryCandidate?.finishReason, "" if there is none
finishReasonOf(data) == IF data.candidate = None THEN "" ELSE data.candidate[1].finishReason

\* data.promptFeedback?.blockReason, "" if there is none
blockReasonOf(data) == IF data.promptFeedback = None THEN "" ELSE data.promptFeedback[1].blockReason

\* an explanation that gives the block reason and nothing else
reasonPartsBlockReasonOnly(data) ==
  IF blockReasonOf(data) # ""
  THEN <<<<"block reason: ", blockReasonOf(data)>>>> ELSE <<>>

reasonParts(data) ==
  (IF finishReasonOf(data) # "" /\ finishReasonOf(data) # "STOP"
   THEN <<<<"finish reason: ", finishReasonOf(data)>>>> ELSE <<>>)
  \o (IF blockReasonOf(data) # ""
      THEN <<<<"block reason: ", blockReasonOf(data)>>>> ELSE <<>>)
  \o (IF blockedCategories(data) # <<>>
      THEN <<<<"safety categories: ">> \o JoinWith(blockedCategories(data), ", ")>> ELSE <<>>)

TruncationNote(maxOutputTokens) ==
  <<"\n\n", "(Gemini stopped early after hitting the max output token limit of ",
    TokenLimit(maxOutputTokens), " tokens. Increase the limit if you need a longer reply.)">>

NoTextAtLimit(maxOutputTokens) ==
  <<"Gemini reached the max output token limit of ", TokenLimit(maxOutputTokens),
    " tokens without returning text. Try increasing the limit or simplifying the prompt.">>

NoTextExplained(data) ==
  <<"Gemini did not return any text for this prompt (">>
    \o OrElse(JoinWith(reasonParts(data), "; "), <<"no details provided">>)
    \o <<"). Try rephrasing or adjusting the request.">>

NoTextGeneric ==
  <<"Gemini did not return any text. Check the server logs for the raw response.">>

\* the content the Gemini route answers with, statement by statement
GeminiContent(data, maxOutputTokens) ==
  LET parts == IF data.candidate = None THEN <<>> ELSE data.candidate[1].parts
      joined == JoinWith(textFragments(parts), "\n")
      finishReason == finishReasonOf(data)
      content1 == IF joined # <<>> /\ finishReason = "MAX_OUTPUT_TOKENS"
                  THEN joined \o TruncationNote(maxOutputTokens)
                  ELSE joined
      content2 == IF blockReasonOf(data) # "" \/ (finishReason # "" /\ finishReason # "STOP")
                     \/ blockedCategories(data) # <<>>
                  THEN NoTextExplained(data)
                  ELSE content1
      content3 == IF content2 = <<>> /\ finishReason = "MAX_OUTPUT_TOKENS"
                  THEN NoTextAtLimit(maxOutputTokens)
                  ELSE content2
      content4 == IF content3 = <<>> THEN NoTextGeneric ELSE content3
  IN IF content1 # <<>> THEN content1 ELSE content4

(* ----------------------------- the routes ----------------------------- *)
\* what the provider does with the forwarded request: the request fails
\* (connection error, Anthropic timeout), or an answer comes back; json is
\* None if the body does not parse, else Some(value)
UpstreamError(message) == [kind |-> "error", message |-> message]
UpstreamAnswer(status, statusMessage, body, json) ==
  [kind |-> "answer", status |-> status, statusMessage |-> statusMessage,
   body |-> body, json |-> json]

\* res.status(status).json({ error })
ErrorAnswer(status, message) == [status |-> status, body |-> [error |-> message]]
\* res.json({ content, model })
SuccessAnswer(content, model) ==
  [status |-> 200, body |-> [content |-> content, model |-> model]]

\* !prompt || typeof prompt !== 'string'
PromptRejected(body) == body.prompt.type # "string" \/ body.prompt.value = <<>>

\* model, '' when the request has none
RequestedModel(body) == IF body.model.type = "string" THEN body.model.value ELSE <<>>

\* maxOutputTokens = 2048 when the request has none
RequestedMaxOutputTokens(body) ==
  IF body.maxOutputTokens = None THEN DefaultMaxOutputTokens ELSE body.maxOutputTokens[1]

\* the test each route makes on the upstream status
UpstreamFailed(providerId, upstream) ==
  IF providerId = "anthropic" THEN upstream.status >= 400
  ELSE ~(upstream.status >= 200 /\ upstream.status <= 299)

UpstreamErrorText(providerId, upstream) ==
  CASE providerId = "anthropic" ->
         <<"Anthropic API error (", ToString(upstream.status), " ", upstream.statusMessage,
           "): ">> \o upstream.body
    [] providerId = "openai" ->
         <<"OpenAI API error (", ToString(upstream.status), "): ">> \o upstream.body
    [] providerId = "gemini" ->
         <<"Gemini API error (", ToString(upstream.status), "): ">> \o upstream.body

\* the answer to a body that is not JSON: Anthropic's is parsed by the
\* route, the others' by response.json(), whose error the outer catch takes
ParseFailureAnswer(providerId) ==
  IF providerId = "anthropic"
  THEN ErrorAnswer(502, <<"Invalid JSON returned from Anthropic">>)
  ELSE ErrorAnswer(500, <<"Unexpected token < in JSON at position 0">>)

NormalizedContent(providerId, data, body) ==
  CASE providerId = "anthropic" -> parseAnthropicContent(data.content)
    [] providerId = "openai" -> Returned(data.choiceContent)
    [] providerId = "gemini" -> Returned(GeminiContent(data, RequestedMaxOutputTokens(body)))

\* the route from the outbound request on, with the resolved key in hand
ForwardedAnswer(providerId, body, upstream) ==
  IF upstream.kind = "error" THEN ErrorAnswer(500, upstream.message)
  ELSE IF UpstreamFailed(providerId, upstream)
  THEN ErrorAnswer(upstream.status, UpstreamErrorText(providerId, upstream))
  ELSE IF upstream.json = None THEN ParseFailureAnswer(providerId)
  ELSE IF upstream.json[1] = JsonNull
  THEN ErrorAnswer(500, <<"Cannot read properties of null">>)
  ELSE LET data == upstream.json[1]
           content == NormalizedContent(providerId, data, body)
       IN IF content.status = "thrown" THEN ErrorAnswer(500, content.message)
          ELSE SuccessAnswer(content.value,
                             OrElse(data.model,
                                    OrElse(RequestedModel(body),
                                           ProxyProviderConfig[providerId].defaultModel)))

\* a route that resolves the credential before it looks at the prompt
HandleRouteKeyFirst(providerId, body, env, upstream) ==
  LET resolvedKey == ensureApiKey(providerId, body.apiKey, env)
  IN IF resolvedKey.status = "thrown" THEN ErrorAnswer(500, resolvedKey.message)
     ELSE IF PromptRejected(body) THEN ErrorAnswer(400, <<"Prompt is required.">>)
     ELSE ForwardedAnswer(providerId, body, upstream)

\* POST /api/<providerId>/...: the three handlers have the same frame
HandleRoute(providerId, body, env, upstream) ==
  IF PromptRejected(body) THEN ErrorAnswer(400, <<"Prompt is required.">>)
  ELSE LET resolvedKey == ensureApiKey(providerId, body.apiKey, env)
       IN IF resolvedKey.status = "thrown" THEN ErrorAnswer(500, resolvedKey.message)
          ELSE ForwardedAnswer(providerId, body, upstream)

\* the credential the route sends upstream, None if it sends nothing
ForwardedKey(providerId, body, env) ==
  IF PromptRejected(body) \/ ensureApiKey(providerId, body.apiKey, env).status = "thrown"
  THEN None
  ELSE Some(ensureApiKey(providerId, body.apiKey, env).value)

\* a route that passes the request's model on as it came
ForwardedModelAsRequested(providerId, body, env) ==
  IF PromptRejected(body) \/ ensureApiKey(providerId, body.apiKey, env).status = "thrown"
  THEN None
  ELSE Some(RequestedModel(body))

\* the model the route names in its upstream request (model ||
\* config.defaultModel), None if it sends nothing
ForwardedModel(providerId, body, env) ==
  IF PromptRejected(body) \/ ensureApiKey(providerId, body.apiKey, env).status = "thrown"
  THEN None
  ELSE Some(OrElse(RequestedModel(body), ProxyProviderConfig[providerId].defaultModel))

\* the handler of a request runs to its answer
routeAnswers ==
  /\ invocation.fn = "route"
  /\ ~invocation.done
  /\ invocation' = [invocation EXCEPT
                      !.done = TRUE,
                      !.forwardedKey = ForwardedKey(invocation.providerId, invocation.body,
                                                    invocation.env),
                      !.forwardedModel = ForwardedModel(invocation.providerId,
                                                        invocation.body, invocation.env),
                      !.response = HandleRoute(invocation.providerId, invocation.body,
                                               invocation.env, invocation.upstream)]
  /\ UNCHANGED appVars

(* ---------------------- requests to the three routes ------------------- *)
RoutePrompts == {JsonUndefined, JsonNumber, JsonString(<<>>), JsonString(<<"hi">>)}
RouteModels == {JsonUndefined, JsonString(<<>>), JsonString(<<"custom-model">>)}
RouteOverrides ==
  {JsonUndefined, JsonNull, JsonNumber, JsonString(<<"o">>), JsonString(<<"undefined">>)}
RouteFlags == {None, Some(<<"true">>)}
RouteEnvValues == {None, Some(<<"k">>), Some(<<"'", "k", "'">>)}

\* a Gemini answer with text, and one blocked for safety
GeminiText ==
  [candidate |-> Some([parts |-> <<[type |-> "object", text |-> JsonString(<<"ans">>)]>>,
                       finishReason |-> "STOP", safetyRatings |-> None]),
   promptFeedback |-> None, model |-> <<>>]
GeminiBlocked ==
  [candidate |-> None,
   promptFeedback |-> Some([blockReason |-> "SAFETY", safetyRatings |-> None]),
   model |-> <<>>]

\* the parsed 2xx bodies of each provider
DataOf(providerId) ==
  CASE providerId = "anthropic" ->
         {[content |-> JsonArray(<<[type |-> "object", text |-> <<"ans">>,
                                    content |-> <<>>]>>),
           model |-> <<"resolved-model">>],
          [content |-> JsonUndefined, model |-> <<>>]}
    [] providerId = "openai" ->
         {[choiceContent |-> <<"ans">>, model |-> <<"resolved-model">>],
          [choiceContent |-> <<>>, model |-> <<>>]}
    [] providerId = "gemini" -> {GeminiText, GeminiBlocked}

UpstreamsOf(providerId) ==
  {UpstreamError(<<"fetch failed">>)}
    \cup (IF providerId = "anthropic"
          THEN {UpstreamError(<<"Anthropic request timed out">>)} ELSE {})
    \cup {UpstreamAnswer(401, "Unauthorized", <<"{\"error\":\"invalid key\"}">>, None),
          UpstreamAnswer(503, "Service Unavailable", <<"overloaded">>, None),
          UpstreamAnswer(200, "OK", <<"<html>">>, None),
          UpstreamAnswer(200, "OK", <<"null">>, Some(JsonNull))}
    \cup {UpstreamAnswer(200, "OK", <<"{...}">>, Some(data)) : data \in DataOf(providerId)}

RouteRequest(providerId, body, env, upstream) ==
  [fn |-> "route", done |-> FALSE, providerId |-> providerId, body |-> body, env |-> env,
   upstream |-> upstream, forwardedKey |-> None, forwardedModel |-> None,
   response |-> Pending]

RouteInit ==
  /\ \E providerId \in KnownProviders :
     \E p \in RoutePrompts, model \in RouteModels, apiKey \in RouteOverrides,
        flag \in RouteFlags, value \in RouteEnvValues, upstream \in UpstreamsOf(providerId) :
        invocation =
          RouteRequest(providerId,
                       [prompt |-> p, model |-> model, apiKey |-> apiKey,
                        maxOutputTokens |-> None],
                       EnvWith(flag, EnvironmentKeyName(providerId), value), upstream)
  /\ AppIdle

RouteNext == routeAnswers

RouteSpec == RouteInit /\ [][RouteNext]_vars

\* the two halves of an adapter, each called on its own: the client's
\* callAIModel and the proxy's route
AdapterInit == CallInit \/ RouteInit

AdapterNext == callSettles \/ routeAnswers

AdapterSpec == AdapterInit /\ [][AdapterNext]_vars

(* ----------------- 2xx answers to the Anthropic route ------------------ *)
\* content blocks: a bare string, text blocks, a block that carries content
\* instead of text, and a block with neither (a tool_use block)
AnthropicBlocks ==
  {JsonString(<<"s">>),
   [type |-> "object", text |-> <<"a">>, content |-> <<>>],
   [type |-> "object", text |-> <<"b">>, content |-> <<"x">>],
   [type |-> "object", text |-> <<>>, content |-> <<"c">>],
   [type |-> "object", text |-> <<>>, content |-> <<>>]}

\* data.content: missing, null, a string, a number, or an array of blocks
AnthropicContents ==
  {JsonUndefined, JsonNull, JsonString(<<"ans">>), JsonNumber}
    \cup {JsonArray(blocks) : blocks \in StringsUpTo(AnthropicBlocks, MaxBlocks)}

AnthropicInit ==
  /\ \E content \in AnthropicContents, named \in {<<>>, <<"resolved-model">>},
        model \in {JsonUndefined, JsonString(<<"custom-model">>)} :
        invocation =
          RouteRequest("anthropic",
                       [prompt |-> JsonString(<<"hi">>), model |-> model,
                        apiKey |-> JsonUndefined, maxOutputTokens |-> None],
                       EnvWith(None, "ANTHROPIC_API_KEY", Some(<<"k">>)),
                       UpstreamAnswer(200, "OK", <<"{...}">>,
                                      Some([content |-> content, model |-> named])))
  /\ AppIdle

AnthropicNext == routeAnswers

AnthropicSpec == AnthropicInit /\ [][AnthropicNext]_vars

(* ------------------ 2xx answers to the Gemini route -------------------- *)
GeminiParts ==
  {<<>>,
   <<[type |-> "object", text |-> JsonUndefined]>>,
   <<[type |-> "object", text |-> JsonString(<<" ">>)]>>,
   <<[type |-> "object", text |-> JsonString(<<"ans">>)]>>,
   <<[type |-> "object", text |-> JsonString(<<"ans", " ">>)], JsonString(<<" ", "more">>)>>}
GeminiFinishReasons == {"", "STOP", "MAX_OUTPUT_TOKENS", "SAFETY"}
CandidateRatings ==
  {None, Some(<<>>),
   Some(<<[category |-> "HARM_CATEGORY_HATE_SPEECH", blocked |-> TRUE],
          [category |-> "HARM_CATEGORY_HARASSMENT", blocked |-> FALSE]>>)}
FeedbackRatings ==
  {None, Some(<<[category |-> "HARM_CATEGORY_DANGEROUS_CONTENT", blocked |-> TRUE]>>)}
GeminiCandidates ==
  {None} \cup {Some([parts |-> parts, finishReason |-> finishReason,
                     safetyRatings |-> ratings]) :
                 parts \in GeminiParts, finishReason \in GeminiFinishReasons,
                 ratings \in CandidateRatings}
GeminiFeedbacks ==
  {None} \cup {Some([blockReason |-> blockReason, safetyRatings |-> ratings]) :
                 blockReason \in {"", "SAFETY"}, ratings \in FeedbackRatings}
GeminiData ==
  {[candidate |-> candidate, promptFeedback |-> feedback, model |-> <<>>] :
     candidate \in GeminiCandidates, feedback \in GeminiFeedbacks}
MaxOutputTokenValues == {None, Some(64), Some(0)}

GeminiInit ==
  /\ \E data \in GeminiData, maxOutputTokens \in MaxOutputTokenValues :
        invocation =
          RouteRequest("gemini",
                       [prompt |-> JsonString(<<"hi">>), model |-> JsonUndefined,
                        apiKey |-> JsonUndefined, maxOutputTokens |-> maxOutputTokens],
                       EnvWith(None, "GEMINI_API_KEY", Some(<<"k">>)),
                       UpstreamAnswer(200, "OK", <<"{...}">>, Some(data)))
  /\ AppIdle

GeminiNext == routeAnswers

GeminiSpec == GeminiInit /\ [][GeminiNext]_vars

(* ------------------- the prompt library and the tabs ------------------- *)
\* toLowerCase on the atoms that occur in titles and commands
LowerAtom(a) ==
  CASE a = "A" -> "a"
    [] a = "B" -> "b"
    [] a = "Product Kickoff Summary" -> "product kickoff summary"
    [] a = "Check working tree status" -> "check working tree status"
    [] OTHER -> a

toLowerCase(s) == [n \in DOMAIN s |-> LowerAtom(s[n])]

\* item.title.trim().toLowerCase() === title.toLowerCase()
SameText(a, b) == toLowerCase(Trim(a)) = toLowerCase(b)

uiFrame == <<prompt, models, modelResponses, modelConversations, replyStates, replyLoading,
             loading, error, round, replyCalls, rounds, replies, caps, invocation>>

\* promptDraft is the draft of the form (set by handlePromptDraftChange,
\* which nothing gates); t is the value Date.now() returns
handleAddPromptToLibrary(promptDraft, t) ==
  /\ edits < caps.edits
  /\ t >= now
  /\ LET title == Trim(promptDraft.title)
         content == Trim(promptDraft.content)
         duplicate == \E n \in DOMAIN library.prompts :
                         SameText(library.prompts[n].title, title)
     IN IF ~Truthy(title) \/ ~Truthy(content)
        THEN /\ promptDraftError' = Some(<<"Add a title and prompt text before saving.">>)
             /\ UNCHANGED <<library, now>>
        ELSE IF duplicate
        THEN /\ promptDraftError' = Some(<<"A prompt with this title already exists.">>)
             /\ UNCHANGED <<library, now>>
        ELSE /\ library' = [library EXCEPT !.prompts =
                              Append(@, LibraryItem(<<"custom-prompt-", TimeStr(t)>>, title,
                                                    content, FALSE))]
             /\ now' = t
             /\ UNCHANGED promptDraftError
  /\ edits' = edits + 1
  /\ UNCHANGED <<uiFrame, managerMessage, commandDraftError, activeTab, isComparisonToolsOpen>>

handleAddCommandToLibrary(commandDraft, t) ==
  /\ edits < caps.edits
  /\ t >= now
  /\ LET title == Trim(commandDraft.title)
         content == Trim(commandDraft.content)
         duplicate == \E n \in DOMAIN library.commands :
                         \/ SameText(library.commands[n].title, title)
                         \/ SameText(library.commands[n].content, content)
     IN IF ~Truthy(title) \/ ~Truthy(content)
        THEN /\ commandDraftError' = Some(<<"Add a label and command before saving.">>)
             /\ UNCHANGED <<library, now>>
        ELSE IF duplicate
        THEN /\ commandDraftError' = Some(<<"That command is already saved.">>)
             /\ UNCHANGED <<library, now>>
        ELSE /\ library' = [library EXCEPT !.commands =
                              Append(@, LibraryItem(<<"custom-command-", TimeStr(t)>>, title,
                                                    content, FALSE))]
             /\ now' = t
             /\ UNCHANGED commandDraftError
  /\ edits' = edits + 1
  /\ UNCHANGED <<uiFrame, managerMessage, promptDraftError, activeTab, isComparisonToolsOpen>>

\* a filter that takes every entry with the id, default or not
WithoutItemAnyEntry(items, itemId) ==
  LET Kept(item) == item.id # itemId
  IN SelectSeq(items, Kept)

\* prev[section].filter((item) => item.id !== itemId || item.isDefault)
WithoutItem(items, itemId) ==
  LET Kept(item) == item.id # itemId \/ item.isDefault
  IN SelectSeq(items, Kept)

\* section is 'prompts' or 'commands'
handleRemoveLibraryItem(section, itemId) ==
  /\ edits < caps.edits
  /\ library' = [library EXCEPT ![section] = WithoutItem(@, itemId)]
  /\ edits' = edits + 1
  /\ UNCHANGED <<uiFrame, managerMessage, now, promptDraftError, commandDraftError, activeTab,
                 isComparisonToolsOpen>>

Tabs == {"ai-comparison", "prompt-optimizer", "prompt-library", "email-digest"}

\* a tab change that leaves the model manager as it is
handleTabChangeKeepsTools(nextTab) ==
  /\ activeTab' = nextTab
  /\ managerMessage' = None
  /\ UNCHANGED isComparisonToolsOpen
  /\ UNCHANGED <<uiFrame, now, edits, library, promptDraftError, commandDraftError>>

handleTabChange(nextTab) ==
  /\ activeTab' = nextTab
  /\ managerMessage' = None
  /\ isComparisonToolsOpen' = IF nextTab # "ai-comparison" THEN FALSE
                              ELSE isComparisonToolsOpen
  /\ UNCHANGED <<uiFrame, now, edits, library, promptDraftError, commandDraftError>>

\* the click on the section tools button, which is the model manager's
\* toggle on the AI comparison tab and a disabled button elsewhere
toggleComparisonTools ==
  /\ activeTab = "ai-comparison"
  /\ isComparisonToolsOpen' = ~isComparisonToolsOpen
  /\ UNCHANGED <<uiFrame, managerMessage, now, edits, library, promptDraftError,
                 commandDraftError, activeTab>>

\* what localStorage may hold for the library
StoredPromptItems ==
  {JsonNull,
   StoredItem(<<>>, <<"A">>, <<"text">>, None),
   StoredItem(<<"prompt-product-kickoff">>, <<"Renamed">>, <<"text">>, Some(FALSE)),
   StoredItem(<<"custom-prompt-", "1699999999999">>, <<"A">>, <<"text">>, Some(FALSE)),
   StoredItem(<<"custom-prompt-", "1699999999998">>, <<"Kept">>, <<"text">>, Some(TRUE))}
StoredCommandItems ==
  {StoredItem(<<"git-status">>, <<"Renamed">>, <<"git status -sb">>, None),
   StoredItem(<<"custom-command-", "1699999999999">>, <<"Log">>, <<"git log">>, Some(FALSE))}
StoredSections(items, n) ==
  {JsonUndefined, JsonNull, JsonString(<<"[]">>)}
    \cup {JsonArray(stored) : stored \in StringsUpTo(items, n)}
StoredValues ==
  {[kind |-> "none"], [kind |-> "unparsable"], [kind |-> "null"]}
    \cup {[kind |-> "object", prompts |-> prompts, commands |-> commands] :
            prompts \in StoredSections(StoredPromptItems, MaxStored),
            commands \in StoredSections(StoredCommandItems, 1)}

PromptDrafts ==
  [title : {<<>>, <<"A">>, <<" ", "a">>, <<"B">>, <<"product kickoff summary">>},
   content : {<<" ">>, <<"text">>}]
CommandDrafts ==
  [title : {<<>>, <<"Log">>}, content : {<<"git log">>, <<"git status">>}]
LibraryIds ==
  {<<"prompt-product-kickoff">>, <<"git-status">>}
    \cup {<<"custom-prompt-", TimeStr(t)>> : t \in 0..MaxClock}
    \cup {<<"custom-prompt-", "1699999999999">>, <<"custom-prompt-", "1699999999998">>,
          <<"custom-command-", "1699999999999">>}

\* the first render with any content of localStorage
UiInit ==
  /\ \E storedValue \in StoredValues : library = loadLibraryFromStorage(storedValue)
  /\ promptDraftError = None
  /\ commandDraftError = None
  /\ activeTab = "ai-comparison"
  /\ isComparisonToolsOpen = FALSE
  /\ prompt = <<>>
  /\ models = DefaultModels
  /\ modelResponses = EmptyMap
  /\ modelConversations = EmptyMap
  /\ replyStates = EmptyMap
  /\ replyLoading = EmptyMap
  /\ loading = FALSE
  /\ error = None
  /\ managerMessage = None
  /\ round = NoRound
  /\ replyCalls = <<>>
  /\ now = 0
  /\ rounds = 0
  /\ replies = 0
  /\ edits = 0
  /\ caps = [rounds |-> 0, replies |-> 0, edits |-> MaxLibraryEdits]
  /\ invocation = NoCall

UiNext ==
  \/ \E promptDraft \in PromptDrafts : \E t \in 0..MaxClock :
        handleAddPromptToLibrary(promptDraft, t)
  \/ \E commandDraft \in CommandDrafts : \E t \in 0..MaxClock :
        handleAddCommandToLibrary(commandDraft, t)
  \/ \E section \in {"prompts", "commands"} : \E itemId \in LibraryIds :
        handleRemoveLibraryItem(section, itemId)
  \/ \E nextTab \in Tabs : handleTabChange(nextTab)
  \/ toggleComparisonTools

UiSpec == UiInit /\ [][UiNext]_vars

(* ============================== properties ============================= *)
IsSuccessShape(outcome) == DOMAIN outcome = {"content", "model"}
IsFailureShape(outcome) == DOMAIN outcome = {"error", "model"} /\ Truthy(outcome.error)

DistinctIds(configurations) ==
  \A i, j \in DOMAIN configurations :
     i # j => configurations[i].id # configurations[j].id

\* the step on which a top-level round completes
RoundCompletion == loading /\ ~loading'

\* the step on which handleSubmit launches a round
RoundLaunch == ~loading /\ loading'

(* C1: when a round over N active configurations with distinct ids         *)
(* completes, the recorded mapping has exactly N entries, one per          *)
(* configuration id; the entry of configuration i is the value of its call *)
(* if the call fulfilled (a success shape) and a failure shape carrying    *)
(* the rejection message and the requested model if it rejected.           *)
C1_OneOutcomePerConfiguration ==
  [][ (RoundCompletion /\ DistinctIds(round.activeModels)) =>
        /\ DOMAIN modelResponses' = {round.activeModels[i].id : i \in DOMAIN round.activeModels}
        /\ Cardinality(DOMAIN modelResponses') = Len(round.activeModels)
        /\ \A i \in DOMAIN round.activeModels :
              LET outcome == modelResponses'[round.activeModels[i].id]
                  settled == round.results[i]
              IN /\ IsSuccessShape(outcome) \/ IsFailureShape(outcome)
                 /\ settled.status = "fulfilled" => outcome = settled.value
                 /\ settled.status = "rejected" =>
                       /\ IsFailureShape(outcome)
                       /\ outcome.error = settled.reason
                       /\ outcome.model = round.activeModels[i].model ]_vars

\* a completed round of three configurations, one of which failed
C1_Witness ==
  /\ ~loading
  /\ rounds >= 1
  /\ Cardinality(DOMAIN modelResponses) = 3
  /\ \E id \in DOMAIN modelResponses : IsFailureShape(modelResponses[id])
  /\ \E id \in DOMAIN modelResponses : IsSuccessShape(modelResponses[id])

\* the call of the i-th configuration of the round failed
CallFailed(i) ==
  \/ round.results[i].status = "rejected"
  \/ round.received[i] # None /\ round.received[i][1] \in FailureResponses

(* C2: when a round in which some calls failed (rejected, timed out or     *)
(* answered with an error) completes, every configuration whose call got a *)
(* 2xx answer has the content and model of that answer recorded, and the   *)
(* round does not end in the page-level error.                             *)
C2_FailuresAreIsolated ==
  [][ (/\ RoundCompletion
       /\ DistinctIds(round.activeModels)
       /\ \E j \in DOMAIN round.results : CallFailed(j)) =>
        /\ error' = None
        /\ \A i \in DOMAIN round.activeModels :
              (round.received[i] # None /\ round.received[i][1] \in {RespSuccess, RespEmpty}) =>
                 /\ round.activeModels[i].id \in DOMAIN modelResponses'
                 /\ IsSuccessShape(modelResponses'[round.activeModels[i].id])
                 /\ modelResponses'[round.activeModels[i].id].content =
                      round.received[i][1].data.content ]_vars

\* a completed round with a rejected call, a timed-out call and an answered call
C2_Witness ==
  /\ ~loading
  /\ rounds >= 1
  /\ \E id \in DOMAIN modelResponses : IsFailureShape(modelResponses[id])
  /\ \E id \in DOMAIN modelResponses :
        /\ IsSuccessShape(modelResponses[id])
        /\ modelResponses[id].content # <<>>
        /\ modelResponses[id].content[Len(modelResponses[id].content)]
             = "Anthropic request timed out"
  /\ \E id \in DOMAIN modelResponses :
        IsSuccessShape(modelResponses[id]) /\ modelResponses[id].content = <<"ans">>

EndsWith(s, t) == Len(s) >= Len(t) /\ SubSeq(s, Len(s) - Len(t) + 1, Len(s)) = t

\* the error message each failing answer produces in the client
FailureMessage(resp) ==
  CASE resp = RespNetworkError -> <<"Failed to fetch">>
    [] resp = RespUnparsable -> <<"Failed to parse response payload">>
    [] resp = RespHttpError -> <<"upstream error (429)">>
    [] resp = RespHttpErrorNoBody -> <<"Bad Gateway">>
    [] resp = RespAnthropicTimeout -> <<"Anthropic request timed out">>

\* the i-th call of the round, to a known provider, got a failing answer
KnownProviderFailed(i) ==
  /\ round.activeModels[i].providerId \in KnownProviders
  /\ round.received[i] # None
  /\ round.received[i][1] \in FailureResponses

C6_SubmissionResetsHistories ==
  /\ [][ RoundLaunch =>
           /\ \A k \in DOMAIN models :
                 models[k].isActive =>
                   /\ models[k].id \in DOMAIN modelConversations'
                   /\ modelConversations'[models[k].id] =
                        <<[sender |-> "user", text |-> prompt]>>
           /\ \A i \in DOMAIN round'.results :
                 round'.activeModels[i].providerId \in KnownProviders =>
                   round'.results[i] = Pending ]_vars
  /\ []( (loading /\ replyCalls = <<>>
           /\ \A i \in DOMAIN round.received : round.received[i] = None) =>
           \A i \in DOMAIN round.activeModels :
              modelConversations[round.activeModels[i].id] =
                <<[sender |-> "user", text |-> round.prompt]>> )

\* a second round has just been launched over instances with a history
C6_Witness ==
  /\ loading
  /\ rounds = 2
  /\ Len(round.activeModels) >= 2
  /\ \A i \in DOMAIN round.results : round.results[i] = Pending
  /\ \A i \in DOMAIN round.activeModels :
        modelConversations[round.activeModels[i].id] = <<UserTurn(round.prompt)>>

(* C8: the step that launches a round creates the promise of every active  *)
(* configuration at once, and the result mapping, the histories and the    *)
(* loading flag of a running round change only on a step taken when no     *)
(* promise of the round is pending.                                        *)
C8_RoundCompletesAfterAllSettle ==
  [][ /\ RoundLaunch =>
           /\ round'.activeModels = activeModels
           /\ DOMAIN round'.results = DOMAIN round'.activeModels
           /\ \A i \in DOMAIN round'.results :
                 round'.activeModels[i].providerId \in KnownProviders =>
                   round'.results[i] = Pending
      /\ (loading /\ (\/ ~loading'
                      \/ modelResponses' # modelResponses
                      \/ modelConversations' # modelConversations)) =>
           \A i \in DOMAIN round.results : round.results[i] # Pending ]_vars

\* a running round in which one call has settled and two are outstanding
C8_Witness ==
  /\ loading
  /\ Cardinality({i \in DOMAIN round.results : round.results[i] = Pending}) = 2
  /\ Cardinality({i \in DOMAIN round.results : round.results[i] # Pending}) = 1
  /\ modelResponses = EmptyMap

(* C9: when a round completes, a configuration whose provider id is not a  *)
(* known provider has a failure outcome whose message reads "Unsupported   *)
(* provider: <id>", and every other configuration of the round has its     *)
(* own outcome recorded.                                                   *)
C9_UnsupportedProviderFailsAlone ==
  [][ (RoundCompletion /\ DistinctIds(round.activeModels)) =>
        \A i \in DOMAIN round.activeModels :
           LET config == round.activeModels[i]
           IN IF config.providerId \notin KnownProviders
              THEN /\ config.id \in DOMAIN modelResponses'
                   /\ IsFailureShape(modelResponses'[config.id])
                   /\ modelResponses'[config.id].error =
                        <<"Unsupported provider: ", config.providerId>>
                   /\ modelResponses'[config.id].model = config.model
              ELSE /\ config.id \in DOMAIN modelResponses'
                   /\ IsSuccessShape(modelResponses'[config.id]) ]_vars

\* a completed round: one configuration of an unknown provider, two others
C9_Witness ==
  /\ ~loading
  /\ rounds >= 1
  /\ \E id \in DOMAIN modelResponses :
        /\ IsFailureShape(modelResponses[id])
        /\ modelResponses[id].error = <<"Unsupported provider: ", "mistral">>
  /\ Cardinality({id \in DOMAIN modelResponses : IsSuccessShape(modelResponses[id])}) = 2

\* the step on which handleReplySubmit is called for the card of model k
ReplySubmission(k) ==
  /\ replies' = replies + 1
  /\ k \in DOMAIN models
  /\ Len(replyCalls') = Len(replyCalls) + 1
  /\ replyCalls'[Len(replyCalls')].model = models[k]

\* the step on which the continuation of the n-th running follow-up runs
ReplyCompletion(n) ==
  /\ n \in DOMAIN replyCalls
  /\ replyCalls[n].promise # Pending
  /\ replyCalls' = RemoveAt(replyCalls, n)

\* the follow-up call failed: it rejected, or its answer was a failing one
ReplyFailed(call) ==
  \/ call.promise.status = "rejected"
  \/ call.received # None /\ call.received[1] \in FailureResponses

\* the user turn handleReplySubmit adds to the history of model k
SubmittedTurn(k) == [sender |-> "user", text |-> Trim(ReplyStateOf(models[k].id).value)]

\* the history of model k with the submitted user turn
HistoryWithReply(k) == ConversationOf(modelConversations, models[k].id) \o <<SubmittedTurn(k)>>

Last(s) == s[Len(s)]

(* the part of C4 on the submission: the user turn is in the history as    *)
(* soon as the follow-up is submitted, and the prompt of the call renders  *)
(* the whole history, ending with that turn                                *)
ReplySubmissionIsOptimistic ==
  \A k \in DOMAIN models :
     ReplySubmission(k) =>
       /\ models[k].id \in DOMAIN modelConversations'
       /\ modelConversations'[models[k].id] = HistoryWithReply(k)
       /\ Last(replyCalls').prompt = formatConversationForPrompt(HistoryWithReply(k))
       /\ EndsWith(Last(replyCalls').prompt, <<"User", ": ">> \o SubmittedTurn(k).text)
       /\ Last(replyCalls').received = None
       /\ models[k].providerId \in KnownProviders => Last(replyCalls').promise = Pending

OutstandingFollowUps(id) ==
  {n \in DOMAIN replyCalls : replyCalls[n].model.id = id /\ replyCalls[n].promise = Pending}

(* C5: at every moment, each instance has at most one follow-up call       *)
(* outstanding.                                                            *)
C5_OneFollowUpPerInstance ==
  \A id \in ModelIds : Cardinality(OutstandingFollowUps(id)) <= 1

(* C7: every round that is launched eventually completes: the loading flag *)
(* always returns to false, also when a provider never answers.            *)
C7_RoundEventuallyCompletes == loading ~> ~loading

(* C10: a call of callAIModel with a provider id that is not a known       *)
(* provider rejects, whatever the prompt.                                  *)
C10_UnknownProviderRejects ==
  (invocation.fn = "callAIModel" /\ invocation.done
   /\ invocation.providerId \notin KnownProviders) =>
     invocation.result.status = "rejected"

(* ------------------------ credential resolution ------------------------ *)
\* a direct call of ensureApiKey has returned or thrown
KeyCallDone == invocation.fn = "ensureApiKey" /\ invocation.done

\* the override is a string that, trimmed, is neither empty nor the text
\* "undefined" or "null"
UsableOverride(overrideKey) ==
  /\ overrideKey.type = "string"
  /\ Trim(overrideKey.value) # <<>>
  /\ Trim(overrideKey.value) # <<"undefined">>
  /\ Trim(overrideKey.value) # <<"null">>

OverridePermitted(env) == env["ALLOW_CLIENT_API_KEYS"] = <<(<<"true">>)>>

\* an override as the interface declares it: a string, or none
DeclaredOverride(overrideKey) == overrideKey.type \in {"undefined", "null", "string"}

\* the value of the provider's environment variable, None if undefined
RawEnvironmentKey(providerId, env) ==
  env[CASE providerId = "anthropic" -> "ANTHROPIC_API_KEY"
        [] providerId = "openai" -> "OPENAI_API_KEY"
        [] providerId = "gemini" -> "GEMINI_API_KEY"]

Quotes == {<<>>, <<"'">>, <<"\"">>}

\* v is raw without its surrounding whitespace and without quotes at its ends
SanitizedFrom(raw, v) == \E pre \in Quotes, post \in Quotes : Trim(raw) = pre \o v \o post

(* C11: a call of ensureApiKey that returns, returns the trimmed override  *)
(* if the override is a non-empty string other than "undefined" and "null" *)
(* after trimming and ALLOW_CLIENT_API_KEYS is 'true'; such a call always  *)
(* returns; in every other case a returned value is the sanitized value of *)
(* the provider's environment variable, and not the override.              *)
C11_OverrideOnlyWhenPermitted ==
  (KeyCallDone /\ invocation.providerId \in KnownProviders) =>
     LET overrideKey == invocation.overrideKey
         result == invocation.result
     IN IF UsableOverride(overrideKey) /\ OverridePermitted(invocation.env)
        THEN result = [status |-> "returned", value |-> Trim(overrideKey.value)]
        ELSE result.status = "returned" =>
               /\ RawEnvironmentKey(invocation.providerId, invocation.env) # None
               /\ SanitizedFrom(RawEnvironmentKey(invocation.providerId, invocation.env)[1],
                                result.value)
               /\ overrideKey.type = "string" => result.value # Trim(overrideKey.value)

\* the override "  o" was returned as "o" under the permitting flag
C11_Witness ==
  /\ KeyCallDone
  /\ invocation.overrideKey = JsonString(<<" ", "o">>)
  /\ OverridePermitted(invocation.env)
  /\ invocation.result.status = "returned"
  /\ invocation.result.value = <<"o">>

\* no source yields a credential: no usable and permitted override, and the
\* environment variable is undefined, empty, or only quotes and whitespace
NoCredential(providerId, overrideKey, env) ==
  /\ ~(UsableOverride(overrideKey) /\ OverridePermitted(env))
  /\ \/ RawEnvironmentKey(providerId, env) = None
     \/ SanitizedFrom(RawEnvironmentKey(providerId, env)[1], <<>>)

\* the message names the provider's environment variable
NamesVariable(message, providerId) ==
  \E i \in DOMAIN message :
     message[i] = (CASE providerId = "anthropic" -> "ANTHROPIC_API_KEY"
                     [] providerId = "openai" -> "OPENAI_API_KEY"
                     [] providerId = "gemini" -> "GEMINI_API_KEY")

StripQuotePair(s) ==
  IF Len(s) >= 2 /\ s[1] \in {"'", "\""} /\ s[Len(s)] \in {"'", "\""}
  THEN SubSeq(s, 2, Len(s) - 1)
  ELSE s

(* C13: a credential that ensureApiKey takes from the environment is the   *)
(* variable's value trimmed, with one pair of surrounding quotes removed   *)
(* if there is such a pair; a value with a quote at one end only is        *)
(* returned as it is, trimmed.                                             *)
C13_QuotePairStripped ==
  (/\ KeyCallDone
   /\ invocation.providerId \in KnownProviders
   /\ invocation.result.status = "returned"
   /\ ~(UsableOverride(invocation.overrideKey) /\ OverridePermitted(invocation.env))) =>
     invocation.result.value =
       StripQuotePair(Trim(RawEnvironmentKey(invocation.providerId, invocation.env)[1]))

(* ------------------------------ the routes ----------------------------- *)
\* a request to one of the routes has been answered
RouteDone == invocation.fn = "route" /\ invocation.done

(* C14: with ALLOW_CLIENT_API_KEYS not 'true', the answer of a route       *)
(* (status and body) is the answer the same request gets with any other    *)
(* apiKey: a string, a number, null, or none.                              *)
C14_AnswerIndependentOfApiKey ==
  (RouteDone /\ ~OverridePermitted(invocation.env)) =>
     \A apiKey \in RouteOverrides :
        invocation.response =
          HandleRoute(invocation.providerId, [invocation.body EXCEPT !.apiKey = apiKey],
                      invocation.env, invocation.upstream)

\* the Gemini route has answered a 2xx upstream response holding an object
GeminiNormalized ==
  /\ RouteDone
  /\ invocation.providerId = "gemini"
  /\ invocation.response.status = 200
  /\ invocation.upstream.kind = "answer"
  /\ invocation.upstream.json # <<>>
  /\ invocation.upstream.json[1] # [type |-> "null"]

Contains(s, atom) == \E i \in DOMAIN s : s[i] = atom

\* the text the first candidate produced: its trimmed non-empty fragments,
\* one per line
ProducedText(data) ==
  IF data.candidate = <<>> THEN <<>>
  ELSE JoinWith(textFragments(data.candidate[1].parts), "\n")

\* the limit a request configures, as the notes print it
ConfiguredLimit(body) ==
  IF body.maxOutputTokens = <<>> THEN "2048"
  ELSE IF body.maxOutputTokens[1] = 0 THEN "the current"
  ELSE ToString(body.maxOutputTokens[1])

\* content carries a note on the max output token limit, with the limit
MentionsLimit(content, limit) ==
  \E i \in DOMAIN content :
     /\ i < Len(content)
     /\ content[i] \in {"(Gemini stopped early after hitting the max output token limit of ",
                        "Gemini reached the max output token limit of "}
     /\ content[i + 1] = limit

\* the response carries a block reason, a finish reason other than STOP, or
\* a blocked category in the ratings the route reads
HasBlockSignal(data) ==
  \/ data.promptFeedback # <<>> /\ data.promptFeedback[1].blockReason # ""
  \/ data.candidate # <<>> /\ data.candidate[1].finishReason \notin {"", "STOP"}
  \/ blockedCategories(data) # <<>>

(* C16: the content of a Gemini answer follows the precedence truncation   *)
(* note > block explanation > generic fallback: with finishReason          *)
(* MAX_OUTPUT_TOKENS the content carries the note that mentions the        *)
(* configured limit (with text, the content is the text followed by that   *)
(* note); otherwise, with no text, it is the block explanation if the      *)
(* response carries a block signal, and the generic message if not.        *)
C16_TruncationNoteFirst ==
  GeminiNormalized =>
     LET data == invocation.upstream.json[1]
         content == invocation.response.body.content
         limit == ConfiguredLimit(invocation.body)
         finishReason == IF data.candidate = <<>> THEN "" ELSE data.candidate[1].finishReason
     IN IF finishReason = "MAX_OUTPUT_TOKENS"
        THEN /\ MentionsLimit(content, limit)
             /\ ProducedText(data) # <<>> =>
                  content = ProducedText(data) \o
                    <<"\n\n", "(Gemini stopped early after hitting the max output token limit of ",
                      limit, " tokens. Increase the limit if you need a longer reply.)">>
        ELSE ProducedText(data) = <<>> =>
               IF HasBlockSignal(data)
               THEN content[1] = "Gemini did not return any text for this prompt ("
               ELSE content = <<"Gemini did not return any text. Check the server logs for the raw response.">>

\* the categories of the blocked ratings in a list that may be missing
BlockedIn(ratings) ==
  IF ratings = <<>> THEN {}
  ELSE {ratings[1][i].category : i \in {j \in DOMAIN ratings[1] : ratings[1][j].blocked}}

\* every blocked category the response carries, on the candidate or in the
\* prompt feedback
AllBlockedCategories(data) ==
  (IF data.candidate = <<>> THEN {} ELSE BlockedIn(data.candidate[1].safetyRatings))
    \cup (IF data.promptFeedback = <<>> THEN {}
          ELSE BlockedIn(data.promptFeedback[1].safetyRatings))

\* the blocked categories of the list the route reads: the candidate's
\* ratings if the candidate has a list, else the prompt feedback's
ReadBlockedCategories(data) ==
  IF data.candidate # <<>> /\ data.candidate[1].safetyRatings # <<>>
  THEN BlockedIn(data.candidate[1].safetyRatings)
  ELSE IF data.promptFeedback = <<>> THEN {}
  ELSE BlockedIn(data.promptFeedback[1].safetyRatings)

\* no text and promptFeedback.blockReason is SAFETY
BlockedForSafety(data) ==
  /\ ProducedText(data) = <<>>
  /\ data.promptFeedback # <<>>
  /\ data.promptFeedback[1].blockReason = "SAFETY"

\* the message names the block reason SAFETY and the candidate's finish
\* reason, if that is not STOP
ExplainsBlock(content, data) ==
  /\ content[1] = "Gemini did not return any text for this prompt ("
  /\ \E i \in DOMAIN content : i > 1 /\ content[i - 1] = "block reason: " /\ content[i] = "SAFETY"
  /\ (data.candidate # <<>> /\ data.candidate[1].finishReason \notin {"", "STOP"}) =>
        \E i \in DOMAIN content :
           i > 1 /\ content[i - 1] = "finish reason: "
                 /\ content[i] = data.candidate[1].finishReason

(* C17 as stated: the content of a Gemini answer is never empty; with no   *)
(* text and blockReason SAFETY it is an explanation that contains SAFETY,   *)
(* the finish reason if that is not STOP, and the name of every blocked    *)
(* safety category in the response.                                        *)
C17_EveryBlockedCategoryNamed ==
  GeminiNormalized =>
     LET data == invocation.upstream.json[1]
         content == invocation.response.body.content
     IN /\ content # <<>>
        /\ BlockedForSafety(data) =>
             /\ ExplainsBlock(content, data)
             /\ \A category \in AllBlockedCategories(data) : Contains(content, category)

(* C17 as amended: the content of a Gemini answer is never empty; with no  *)
(* text and blockReason SAFETY it is an explanation that contains SAFETY,   *)
(* the finish reason if that is not STOP, and the names of the blocked     *)
(* categories of one ratings list: the first candidate's safetyRatings if  *)
(* the candidate has that list (even an empty one), else the prompt        *)
(* feedback's.  Blocked categories of the other list are not named.        *)
C17_ReadBlockedCategoriesNamed ==
  GeminiNormalized =>
     LET data == invocation.upstream.json[1]
         content == invocation.response.body.content
     IN /\ content # <<>>
        /\ BlockedForSafety(data) =>
             /\ ExplainsBlock(content, data)
             /\ \A category \in ReadBlockedCategories(data) : Contains(content, category)
             /\ \A category \in AllBlockedCategories(data) \ ReadBlockedCategories(data) :
                   ~Contains(content, category)

\* an answer blocked for SAFETY whose candidate carries a blocked rating and
\* the finish reason SAFETY: the message names all three
C17_Witness ==
  /\ GeminiNormalized
  /\ BlockedForSafety(invocation.upstream.json[1])
  /\ Contains(invocation.response.body.content, "block reason: ")
  /\ Contains(invocation.response.body.content, "finish reason: ")
  /\ Contains(invocation.response.body.content, "HARM_CATEGORY_HATE_SPEECH")
  /\ ~Contains(invocation.response.body.content, "HARM_CATEGORY_DANGEROUS_CONTENT")
  /\ invocation.upstream.json[1].promptFeedback[1].safetyRatings # <<>>

IsErrorBody(body) == DOMAIN body = {"error"}
IsSuccessBody(body) == DOMAIN body = {"content", "model"}

\* the request has no prompt, or one that is empty or not a string
PromptMissing(body) == body.prompt \notin {[type |-> "string", value |-> <<"hi">>]}

\* no credential can be resolved for the request
CredentialFails(providerId, body, env) ==
  ensureApiKey(providerId, body.apiKey, env).status = "thrown"

(* C18: a route answers 200 with {content, model} or a failure status with *)
(* {error}: 400 when the prompt is missing, empty or not a string, whether *)
(* or not a credential is configured; else a 5xx status when no credential *)
(* resolves, when the outbound request fails or when the upstream body     *)
(* does not parse; the upstream's status when that is 4xx or 5xx.          *)
C18_StatusMirrorsFailure ==
  RouteDone =>
     LET response == invocation.response
         body == invocation.body
         upstream == invocation.upstream
     IN /\ IF response.status = 200 THEN IsSuccessBody(response.body)
           ELSE IsErrorBody(response.body) /\ response.status >= 400
        /\ IF PromptMissing(body) THEN response.status = 400
           ELSE IF CredentialFails(invocation.providerId, body, invocation.env)
           THEN response.status >= 500
           ELSE IF upstream.kind = "error" THEN response.status >= 500
           ELSE IF upstream.status >= 400 THEN response.status = upstream.status
           ELSE IF upstream.json = <<>> \/ upstream.json[1] = [type |-> "null"]
           THEN response.status >= 500
           ELSE response.status = 200

\* a request without prompt, on a server without the provider's key, got 400
C18_Witness ==
  /\ RouteDone
  /\ invocation.body.prompt = [type |-> "undefined"]
  /\ invocation.env[EnvironmentKeyName(invocation.providerId)] = <<>>
  /\ invocation.response = [status |-> 400, body |-> [error |-> <<"Prompt is required.">>]]

(* ----------------------- repeated resolution --------------------------- *)
\* the step on which a call of ensureApiKey returns or throws
KeyCallReturns ==
  invocation.fn = "ensureApiKey" /\ ~invocation.done /\ invocation'.done

\* result is what the inputs of the call give, whatever came before
ResolvedFrom(result, providerId, overrideKey, env) ==
  IF UsableOverride(overrideKey) /\ OverridePermitted(env)
  THEN result = [status |-> "returned", value |-> Trim(overrideKey.value)]
  ELSE IF NoCredential(providerId, overrideKey, env)
  THEN result.status = "thrown" /\ NamesVariable(result.message, providerId)
  ELSE /\ result.status = "returned"
       /\ result.value # <<>>
       /\ SanitizedFrom(RawEnvironmentKey(providerId, env)[1], result.value)

LineBreak == "\n\n"

RoleLabel(sender) == IF sender = "user" THEN "User" ELSE "Assistant"

LabeledLine(message) == <<RoleLabel(message.sender), ": ">> \o message.text

\* where the line of the n-th turn starts in a prompt that has one labeled
\* line per turn, each followed by a separator except the last
RECURSIVE LineStart(_, _)
LineStart(turns, n) ==
  IF n = 1 THEN 1
  ELSE LineStart(turns, n - 1) + Len(LabeledLine(turns[n - 1])) + 1

LineEnd(turns, n) == LineStart(turns, n) + Len(LabeledLine(turns[n])) - 1

\* text is the labeled lines of turns, in the order of turns, with a
\* separator between two lines and nothing else
RendersInOrder(text, turns) ==
  /\ turns # <<>>
  /\ Len(text) = LineEnd(turns, Len(turns))
  /\ \A n \in DOMAIN turns :
        /\ SubSeq(text, LineStart(turns, n), LineEnd(turns, n)) = LabeledLine(turns[n])
        /\ n < Len(turns) => text[LineEnd(turns, n) + 1] = LineBreak

(* C19: the prompt handleReplySubmit sends for a card has one labeled line *)
(* for every turn of the card's history, in the order of the history       *)
(* ("User: ..." for a user turn, "Assistant: ..." for an assistant turn),  *)
(* and the new user text as its last line; the history user "hi",          *)
(* assistant "hello" with the new text "more" gives exactly those three    *)
(* lines.                                                                  *)
C19_FollowUpPromptRendersHistory ==
  [][ /\ \A k \in DOMAIN models :
           ReplySubmission(k) =>
             LET prior == ConversationOf(modelConversations, models[k].id)
                 text == Trim(ReplyStateOf(models[k].id).value)
                 sent == Last(replyCalls').prompt
             IN /\ RendersInOrder(sent, prior \o <<UserTurn(text)>>)
                /\ EndsWith(sent, <<"User", ": ">> \o text)
      /\ formatConversationForPrompt(<<UserTurn(<<"hi">>), AssistantTurn(<<"hello">>),
                                       UserTurn(<<"more">>)>>)
           = <<"User", ": ", "hi", LineBreak, "Assistant", ": ", "hello", LineBreak,
               "User", ": ", "more">> ]_vars

\* a follow-up on a history of one user and one assistant turn is running
\* with a prompt of three lines
C19_Witness ==
  \E n \in DOMAIN replyCalls :
     /\ ConversationOf(modelConversations, replyCalls[n].model.id)
          = <<UserTurn(<<"hi">>), AssistantTurn(<<"ans">>), UserTurn(<<"more">>)>>
     /\ replyCalls[n].prompt = <<"User", ": ", "hi", LineBreak, "Assistant", ": ", "ans",
                                 LineBreak, "User", ": ", "more">>

(* ------------------- callAIModel on a failing backend ------------------ *)
\* a direct call of callAIModel for a known provider with a non-blank
\* prompt has settled
KnownCallSettled ==
  /\ invocation.fn = "callAIModel"
  /\ invocation.done
  /\ invocation.providerId \in KnownProviders
  /\ Trim(invocation.prompt) # <<>>

\* the model the call asked for, the provider's default if it named none
RequestedOrDefault(providerId, model) ==
  IF model # <<>> THEN model ELSE PROVIDER_CONFIG[providerId].defaultModel

(* C20: callAIModel for a known provider and a non-blank prompt never      *)
(* rejects; when the backend request fails (no connection, a status that   *)
(* is not 2xx, a body that is not JSON) it resolves with a mock response:  *)
(* the content holds the error message, the model is the requested (or     *)
(* default) model followed by " (mock)".                                   *)
C20_FailedRequestResolvesWithMock ==
  KnownCallSettled =>
    /\ invocation.result.status = "fulfilled"
    /\ invocation.resp \in FailureResponses =>
          /\ IsSuccessShape(invocation.result.value)
          /\ EndsWith(invocation.result.value.content,
                      <<"Error: ">> \o FailureMessage(invocation.resp))
          /\ invocation.result.value.model =
               RequestedOrDefault(invocation.providerId, invocation.model) \o <<" (mock)">>

\* a call for Gemini without a model name, whose request could not connect,
\* resolved with the mock of the default model
C20_Witness ==
  /\ KnownCallSettled
  /\ invocation.providerId = "gemini"
  /\ invocation.model = <<>>
  /\ invocation.resp = RespNetworkError
  /\ invocation.result.status = "fulfilled"
  /\ invocation.result.value.model = <<"gemini-2.5-flash", " (mock)">>
  /\ Contains(invocation.result.value.content, "Failed to fetch")

(* ------------------------- the configuration list ---------------------- *)
(* C21: after any sequence of add, remove, edit and toggle operations on   *)
(* the three seeded configurations, the ids of the configurations in the   *)
(* list are pairwise distinct, also when two configurations are added for  *)
(* the same provider at the same value of the clock.                       *)
C21_InstanceIdsDistinct == DistinctIds(models)

(* --------------------------- the default model ------------------------- *)
\* the request names no model: the field is missing or the empty string
NoModelRequested(body) == body.model \in {JsonUndefined, JsonString(<<>>)}

\* the route answered a parsed 2xx upstream response
RouteSucceeded == RouteDone /\ IsSuccessBody(invocation.response.body)

\* a direct call of callAIModel for a known provider has resolved
KnownCallResolved ==
  /\ invocation.fn = "callAIModel"
  /\ invocation.done
  /\ invocation.providerId \in KnownProviders
  /\ invocation.result.status = "fulfilled"

(* C22: a route whose request names no model sends the provider's default  *)
(* model upstream and, when the upstream response names none, answers with *)
(* it; the client's adapter resolves to the default model too when neither *)
(* the call nor the backend names one; the model of a success result is    *)
(* never empty for a known provider.                                       *)
C22_DefaultModelSubstituted ==
  /\ (RouteDone /\ invocation.forwardedModel # None) =>
        /\ invocation.forwardedModel[1] # <<>>
        /\ NoModelRequested(invocation.body) =>
             invocation.forwardedModel[1]
               = ProxyProviderConfig[invocation.providerId].defaultModel
  /\ RouteSucceeded =>
        /\ invocation.response.body.model # <<>>
        /\ (NoModelRequested(invocation.body) /\ invocation.upstream.json[1].model = <<>>) =>
             invocation.response.body.model
               = ProxyProviderConfig[invocation.providerId].defaultModel
  /\ KnownCallResolved =>
        /\ invocation.result.value.model # <<>>
        /\ (/\ invocation.model = <<>>
            /\ invocation.resp \notin FailureResponses
            /\ invocation.resp.data.model = <<>>) =>
             invocation.result.value.model = PROVIDER_CONFIG[invocation.providerId].defaultModel

\* the Gemini route was asked without a model, Gemini's answer named none,
\* and the default model went upstream and into the result
C22_Witness ==
  /\ RouteSucceeded
  /\ invocation.providerId = "gemini"
  /\ invocation.body.model = JsonUndefined
  /\ invocation.upstream.json[1].model = <<>>
  /\ invocation.forwardedModel = <<(<<"gemini-2.5-flash">>)>>
  /\ invocation.response.body.model = <<"gemini-2.5-flash">>

(* ----------------------- Anthropic normalisation ----------------------- *)
\* the Anthropic route has handled a 2xx upstream response whose body
\* parsed to an object
AnthropicParsed ==
  /\ RouteDone
  /\ invocation.providerId = "anthropic"
  /\ invocation.upstream.kind = "answer"
  /\ invocation.upstream.status \in 200..299
  /\ invocation.upstream.json # <<>>
  /\ invocation.upstream.json[1] # [type |-> "null"]

\* the pieces of a text between newlines; the empty text has none
RECURSIVE SplitLines(_)
SplitLines(text) ==
  IF text = <<>> THEN <<>>
  ELSE IF \A n \in DOMAIN text : text[n] # "\n" THEN <<text>>
  ELSE LET cut == CHOOSE n \in DOMAIN text :
                     text[n] = "\n" /\ \A m \in 1..(n - 1) : text[m] # "\n"
       IN <<SubSeq(text, 1, cut - 1)>> \o SplitLines(SubSeq(text, cut + 1, Len(text)))

\* the text a block contributes: itself if it is a string, else its text,
\* else its content
FragmentOf(block) ==
  IF block.type = "string" THEN block.value
  ELSE IF block.text # <<>> THEN block.text
  ELSE block.content

\* the blocks of the answer's content; none when it is not an array
BlocksOf(content) == IF content.type = "array" THEN content.items ELSE <<>>

\* the non-empty fragments of blocks, in the order of blocks
RECURSIVE FragmentsOf(_)
FragmentsOf(blocks) ==
  IF blocks = <<>> THEN <<>>
  ELSE (IF FragmentOf(Head(blocks)) = <<>> THEN <<>> ELSE <<FragmentOf(Head(blocks))>>)
         \o FragmentsOf(Tail(blocks))

(* C23: for every parsed 2xx answer of Anthropic the route answers 200     *)
(* with {content, model}, where content is the text fragments of the       *)
(* answer's content blocks in block order, joined by newline; an answer    *)
(* whose content is missing, null or not an array gets the empty content,  *)
(* not a failure.                                                          *)
C23_ContentJoinedOrEmpty ==
  AnthropicParsed =>
    /\ invocation.response.status = 200
    /\ IsSuccessBody(invocation.response.body)
    /\ SplitLines(invocation.response.body.content)
         = FragmentsOf(BlocksOf(invocation.upstream.json[1].content))

\* the same for answers whose content is an array or missing
ArrayContentJoined ==
  (AnthropicParsed /\ invocation.upstream.json[1].content.type \in {"array", "undefined"}) =>
    /\ invocation.response.status = 200
    /\ IsSuccessBody(invocation.response.body)
    /\ SplitLines(invocation.response.body.content)
         = FragmentsOf(BlocksOf(invocation.upstream.json[1].content))

(* --------------------------- the prompt library ------------------------ *)
\* the default entry is in the section, flagged as a default
DefaultKept(items, default) ==
  \E n \in DOMAIN items : items[n].id = default.id /\ items[n].isDefault

DefaultsKept ==
  /\ \A n \in DOMAIN DEFAULT_PROMPT_LIBRARY :
        DefaultKept(library.prompts, DEFAULT_PROMPT_LIBRARY[n])
  /\ \A n \in DOMAIN DEFAULT_GIT_COMMANDS :
        DefaultKept(library.commands, DEFAULT_GIT_COMMANDS[n])

DefaultsOf(section) ==
  IF section = "prompts" THEN DEFAULT_PROMPT_LIBRARY ELSE DEFAULT_GIT_COMMANDS

IsDefaultId(section, itemId) ==
  \E n \in DOMAIN DefaultsOf(section) : DefaultsOf(section)[n].id = itemId

(* C24: every default prompt and every default git command is in the      *)
(* library, flagged isDefault, whatever localStorage held at load time and *)
(* whatever was added and removed since; a request to remove a default     *)
(* entry leaves the library as it was.                                     *)
C24_DefaultsAreProtected ==
  /\ []DefaultsKept
  /\ [][ \A section \in {"prompts", "commands"} : \A itemId \in LibraryIds :
           (handleRemoveLibraryItem(section, itemId) /\ IsDefaultId(section, itemId)) =>
              library' = library ]_vars

\* the library was loaded from a storage that held the first default prompt
\* under another title and flagged as not default, and after as many adds
\* and removals as the exploration has that entry is still there as a default
C24_Witness ==
  /\ edits = MaxLibraryEdits
  /\ Len(library.prompts) > Len(DEFAULT_PROMPT_LIBRARY)
  /\ library.prompts[1].id = <<"prompt-product-kickoff">>
  /\ library.prompts[1].title = <<"Renamed">>
  /\ library.prompts[1].isDefault
  /\ DefaultsKept

\* the draft can be saved: it has a title and a text, and no saved prompt
\* has its title, whatever the case of the letters
CanSavePrompt(promptDraft) ==
  /\ Trim(promptDraft.title) # <<>>
  /\ Trim(promptDraft.content) # <<>>
  /\ \A n \in DOMAIN library.prompts :
        toLowerCase(Trim(library.prompts[n].title)) # toLowerCase(Trim(promptDraft.title))

(* C25: saving a prompt draft with a title and a text, whose title no      *)
(* saved prompt has (case-insensitively), appends exactly one entry, not a *)
(* default, and removing that entry gives the prompt list of before; a     *)
(* draft with a blank title, a blank text or a title already in use leaves *)
(* the library as it was and sets the draft error.                         *)
C25_AddThenRemoveRestores ==
  [][ \A promptDraft \in PromptDrafts : \A t \in 0..MaxClock :
        handleAddPromptToLibrary(promptDraft, t) =>
          IF CanSavePrompt(promptDraft)
          THEN LET added == library'.prompts[Len(library'.prompts)]
               IN /\ library'.prompts = Append(library.prompts, added)
                  /\ library'.commands = library.commands
                  /\ ~added.isDefault
                  /\ added.title = Trim(promptDraft.title)
                  /\ WithoutItem(library'.prompts, added.id) = library.prompts
          ELSE library' = library /\ promptDraftError' # <<>> ]_vars

(* ------------------------------- the tabs ------------------------------ *)
(* C26: the model manager panel is collapsed after the first render, a     *)
(* click on its toggle flips it, and it is open only while the AI          *)
(* comparison tab is the active one: a change to any other tab collapses   *)
(* it.                                                                     *)
C26_ManagerOpenOnlyOnComparisonTab ==
  /\ ~isComparisonToolsOpen
  /\ [](isComparisonToolsOpen => activeTab = "ai-comparison")
  /\ [][toggleComparisonTools => isComparisonToolsOpen' = ~isComparisonToolsOpen]_vars
  /\ [][activeTab' # "ai-comparison" => ~isComparisonToolsOpen']_vars

\* the panel was opened on the AI comparison tab
C26_Witness == isComparisonToolsOpen /\ activeTab = "ai-comparison"

(* ----------------------- the shape of the histories -------------------- *)
\* the history starts with a user turn and no assistant turn follows
\* another one
Alternates(conversation) ==
  /\ conversation # <<>> => conversation[1].sender = "user"
  /\ \A n \in 1..(Len(conversation) - 1) :
        ~(conversation[n].sender = "assistant" /\ conversation[n + 1].sender = "assistant")

\* the history the n-th running follow-up was submitted on is no longer the
\* history of its instance: a top-level submission has reset it since
HistoryReset(n) ==
  ConversationOf(modelConversations, replyCalls[n].model.id)
    # replyCalls[n].conversationWithUser

(* C27: every history starts with a user turn and never holds two          *)
(* assistant turns in a row, and the answer to a follow-up is appended     *)
(* only to the history the follow-up was submitted on: when a top-level    *)
(* submission has reset the history in the meantime, the answer is not     *)
(* appended to the reset history.                                          *)
C27_AnswersOnlyTheLastUserTurn ==
  /\ [](\A id \in DOMAIN modelConversations : Alternates(modelConversations[id]))
  /\ [][ \A n \in DOMAIN replyCalls :
           (ReplyCompletion(n) /\ HistoryReset(n)) =>
              ConversationOf(modelConversations', replyCalls[n].model.id)
                = ConversationOf(modelConversations, replyCalls[n].model.id) ]_vars

(* ------------------- outcomes and histories of a round ----------------- *)
\* the history ends with an assistant turn holding the outcome's content
AnsweredWith(conversation, outcome) ==
  /\ conversation # <<>>
  /\ Last(conversation) = [sender |-> "assistant", text |-> outcome.content]

EndsWithUserTurn(conversation) ==
  conversation # <<>> /\ Last(conversation).sender = "user"

LeftOut(k) == ~models[k].isActive

(* C29 as stated: the step on which handleSubmit launches a round leaves   *)
(* the history of every configuration that is inactive at that time as it  *)
(* was.                                                                    *)
C29_InactiveHistoriesKept ==
  [][ (RoundLaunch /\ DistinctIds(models)) =>
        \A k \in DOMAIN models :
           LeftOut(k) =>
             ConversationOf(modelConversations', models[k].id)
               = ConversationOf(modelConversations, models[k].id) ]_vars

(* C29 as the code has it: the step on which handleSubmit launches a round *)
(* replaces the whole history map: every active configuration gets the     *)
(* single user turn, and every configuration left out of the round is left *)
(* without a history, whatever it had.                                     *)
C29_InactiveHistoriesDropped ==
  [][ (RoundLaunch /\ DistinctIds(models)) =>
        \A k \in DOMAIN models :
           IF LeftOut(k)
           THEN models[k].id \notin DOMAIN modelConversations'
           ELSE /\ models[k].id \in DOMAIN modelConversations'
                /\ modelConversations'[models[k].id]
                     = <<[sender |-> "user", text |-> prompt]>> ]_vars

\* a second round is running without one of the seeded configurations,
\* which is inactive and has no history
C29_Witness ==
  /\ loading
  /\ rounds = 2
  /\ Len(round.activeModels) = 2
  /\ \E k \in DOMAIN models :
        /\ ~models[k].isActive
        /\ models[k].id \notin DOMAIN modelConversations
  /\ \A i \in DOMAIN round.activeModels :
        modelConversations[round.activeModels[i].id]
          = <<[sender |-> "user", text |-> round.prompt]>>

(* ---------------------- submissions that are refused ------------------- *)
\* every character of the text is white space, or there is none
IsBlank(text) == \A i \in DOMAIN text : text[i] = " "

NoModelSelected == <<"Select at least one model to run the comparison.">>

\* handleSubmit runs with a blank prompt or with no active configuration
SubmissionRefused == handleSubmit /\ (IsBlank(prompt) \/ activeModels = <<>>)

(* C30: a step of handleSubmit with a blank prompt or with no active       *)
(* configuration launches no call and leaves the loading flag, every       *)
(* history and every recorded outcome as they were; when the prompt is not *)
(* blank it sets the "Select at least one model" error, and a blank prompt *)
(* leaves the error alone.  No round is ever launched from such a state.   *)
C30_RefusedSubmissionChangesNothing ==
  /\ [][ SubmissionRefused =>
           /\ loading' = loading
           /\ round' = round
           /\ modelConversations' = modelConversations
           /\ modelResponses' = modelResponses
           /\ error' = IF IsBlank(prompt) THEN error ELSE Some(NoModelSelected) ]_vars
  /\ [][ RoundLaunch => ~IsBlank(prompt) /\ activeModels # <<>> ]_vars

\* a round was run and answered, every configuration was then switched
\* off, and the next submission was refused with the error: nothing is
\* loading and the histories and outcomes of the round are still there
C30_Witness ==
  /\ error = Some(NoModelSelected)
  /\ ~loading
  /\ ~IsBlank(prompt)
  /\ activeModels = <<>>
  /\ rounds = 1
  /\ \A k \in DOMAIN models :
        /\ models[k].id \in DOMAIN modelResponses
        /\ Len(ConversationOf(modelConversations, models[k].id)) = 2
====
